---- MODULE Spec2Model ----
(***************************************************************************)
(* Speed Bump kernel module: the target registry (speed_bump_main.c), the  *)
(* uprobe attach/detach lifecycle and the uprobe handler                   *)
(* (speed_bump_uprobe.c), as a state machine.                              *)
(*                                                                         *)
(* Strings are sequences of one-character strings, so that the command     *)
(* parser is modelled on the bytes it scans.  Error returns are the errno  *)
(* names ("EEXIST" stands for -EEXIST); a return of 0 is "OK".             *)
(*                                                                         *)
(* Granularity.  A control-path operation is one step per region in which  *)
(* nothing it touches can be observed by another context: the parse that   *)
(* precedes mutex_lock is a step of its own (it reads the default delay    *)
(* without the lock), a critical section that cannot block is one step,    *)
(* and free_target is split where uprobe_unregister waits for in-flight    *)
(* handlers.  The handler is two steps: its checks up to the start of the  *)
(* spin delay, and the counter updates that follow the spin.               *)
(***************************************************************************)
EXTENDS Integers, Sequences, FiniteSets, TLC

(***************************************************************************)
(* Bounds of the model.  The limits of speed_bump.h are scaled down so     *)
(* that the cases at the limits are reached: 64 targets -> 2,              *)
(* 10,000,000,000 ns -> 4, 1,000,000 ns -> 1, 256/128 bytes -> 4/3.        *)
(***************************************************************************)
SPEED_BUMP_MAX_TARGETS == 2

SPEED_BUMP_MAX_DELAY_NS == 4

SPEED_BUMP_DEFAULT_DELAY_NS == 1

SPEED_BUMP_MAX_PATH_LEN == 4

SPEED_BUMP_MAX_SYMBOL_LEN == 3

\* Largest value kstrtou64 accepts before it reports overflow (2^64 - 1, scaled).
U64_MAX == 50

\* Largest value kstrtoint accepts (INT_MAX, scaled).
INT_MAX == 20

\* CPUs on which the uprobe handler can run at the same time.
NumCPUs == 2

\* Probe triggers per behaviour.
MaxTriggers == 3

\* SPEED_BUMP_MAX_LINE_LEN (512), scaled to the longest well-formed command.
SPEED_BUMP_MAX_LINE_LEN == 15

\* sizeof(delay_buf) in parse_target_spec (32), scaled.
DELAY_BUF_SIZE == 3

\* How far the clock advances, at most, before speed_bump_spin_delay_ns has
\* read its start time.
EarlyTicks == 2

\* How far the clock advances, at most, after speed_bump_spin_delay_ns has
\* read its start time; more than the longest delay.
ClockCap == 6

(***************************************************************************)
(* C strings                                                               *)
(***************************************************************************)
Digits == <<"0", "1", "2", "3", "4", "5", "6", "7", "8", "9">>

IsDigit(c) == \E i \in 1..10 : Digits[i] = c

DigitVal(c) == (CHOOSE i \in 1..10 : Digits[i] = c) - 1

Letters == {"a", "b", "c", "f", "g", "h", "p", "i", "d", "x"}

\* isalpha() on the characters the model's inputs use.
isalpha(c) == c \in Letters

\* strchr(s + from - 1, c): index of the first c at or after position from, 0 if none.
strchr(s, c, from) ==
    IF \E i \in from..Len(s) : s[i] = c
    THEN CHOOSE i \in from..Len(s) : s[i] = c /\ \A j \in from..(i - 1) : s[j] # c
    ELSE 0

\* strstr(s + from - 1, pat): index of the first occurrence of pat, 0 if none.
strstr(s, pat, from) ==
    LET Hit(i) == i + Len(pat) - 1 <= Len(s) /\ SubSeq(s, i, i + Len(pat) - 1) = pat
    IN  IF \E i \in from..Len(s) : Hit(i)
        THEN CHOOSE i \in from..Len(s) : Hit(i) /\ \A j \in from..(i - 1) : ~Hit(j)
        ELSE 0

\* Length of the leading run of decimal digits of s.
RECURSIVE DigitRun(_)
DigitRun(s) == IF s # <<>> /\ IsDigit(Head(s)) THEN 1 + DigitRun(Tail(s)) ELSE 0

\* Value of a string of decimal digits, saturating above cap (overflow detected).
RECURSIVE DigitsValue(_, _, _)
DigitsValue(s, acc, cap) ==
    IF s = <<>> THEN acc
    ELSE IF acc > cap THEN acc
    ELSE DigitsValue(Tail(s), acc * 10 + DigitVal(Head(s)), cap)

\* kstrtoull(): optional '+', decimal digits, optional single trailing newline.
kstrtou64(s) ==
    LET t == IF s # <<>> /\ Head(s) = "+" THEN Tail(s) ELSE s
        n == DigitRun(t)
        v == DigitsValue(SubSeq(t, 1, n), 0, U64_MAX)
        rest == SubSeq(t, n + 1, Len(t))
        rest2 == IF rest # <<>> /\ Head(rest) = "\n" THEN Tail(rest) ELSE rest
    IN  IF n = 0 THEN [ret |-> "EINVAL", val |-> 0]
        ELSE IF v > U64_MAX THEN [ret |-> "ERANGE", val |-> 0]
        ELSE IF rest2 # <<>> THEN [ret |-> "EINVAL", val |-> 0]
        ELSE [ret |-> "OK", val |-> v]

\* kstrtoint(): kstrtoll() (optional sign) followed by the range check of int.
kstrtoint(s) ==
    LET neg == s # <<>> /\ Head(s) = "-"
        r == kstrtou64(IF neg THEN Tail(s) ELSE s)
    IN  IF r.ret # "OK" THEN r
        ELSE IF r.val > INT_MAX + (IF neg THEN 1 ELSE 0) THEN [ret |-> "ERANGE", val |-> 0]
        ELSE [ret |-> "OK", val |-> IF neg THEN 0 - r.val ELSE r.val]

(***************************************************************************)
(* parse_target_spec: "PATH:SYMBOL [DELAY_NS] [pid=PID]".  dflt is the     *)
(* value of speed_bump_default_delay read by the call.                     *)
(***************************************************************************)
ParseFail(e) == [ret |-> e, path |-> <<>>, symbol |-> <<>>, delay_ns |-> 0, pid_filter |-> 0]

\* Number of bytes left of a delay field after trailing blanks are dropped.
RECURSIVE TrimTrailing(_, _)
TrimTrailing(s, n) ==
    IF n > 0 /\ s[n] \in {" ", "\t"} THEN TrimTrailing(s, n - 1) ELSE n

\* Length of s after trailing CR/LF are dropped.
RECURSIVE StripNewline(_, _)
StripNewline(s, n) ==
    IF n > 0 /\ s[n] \in {"\n", "\r"} THEN StripNewline(s, n - 1) ELSE n

parse_target_spec(line, dflt) ==
    LET colon == strchr(line, ":", 1)
        plen == colon - 1
        path == SubSeq(line, 1, plen)
        after == SubSeq(line, colon + 1, Len(line))
        space == strchr(after, " ", 1)
        rest == SubSeq(after, space + 1, Len(after))
        pid_str == strstr(rest, <<"p", "i", "d", "=">>, 1)
        pid == IF pid_str # 0 THEN kstrtoint(SubSeq(rest, pid_str + 4, Len(rest)))
               ELSE [ret |-> "OK", val |-> 0]
        delay_len == TrimTrailing(rest, pid_str - 1)
        delay == IF pid_str > 1
                 THEN IF delay_len > 0 /\ delay_len < DELAY_BUF_SIZE
                      THEN kstrtou64(SubSeq(rest, 1, delay_len))
                      ELSE [ret |-> "OK", val |-> dflt]
                 ELSE IF pid_str = 0 THEN kstrtou64(rest)
                 ELSE [ret |-> "OK", val |-> dflt]
        slen == IF space # 0 THEN space - 1 ELSE StripNewline(after, Len(after))
        symbol == SubSeq(after, 1, slen)
        Done(d) == IF symbol[1] # "_" /\ ~isalpha(symbol[1]) THEN ParseFail("EINVAL")
                   ELSE [ret |-> "OK", path |-> path, symbol |-> symbol,
                         delay_ns |-> d, pid_filter |-> pid.val]
    IN  IF colon = 0 THEN ParseFail("EINVAL")
        ELSE IF plen = 0 \/ plen >= SPEED_BUMP_MAX_PATH_LEN THEN ParseFail("ENAMETOOLONG")
        ELSE IF line[1] # "/" THEN ParseFail("EINVAL")
        ELSE IF slen = 0 \/ slen >= SPEED_BUMP_MAX_SYMBOL_LEN THEN ParseFail("ENAMETOOLONG")
        ELSE IF space = 0 THEN Done(dflt)
        ELSE IF pid.ret # "OK" THEN ParseFail(pid.ret)
        ELSE IF pid.val < 0 THEN ParseFail("EINVAL")
        ELSE IF delay.ret # "OK" THEN ParseFail(delay.ret)
        ELSE IF delay.val > SPEED_BUMP_MAX_DELAY_NS THEN ParseFail("ERANGE")
        ELSE Done(delay.val)

(***************************************************************************)
(* Environment: the files the paths name, and the process tree             *)
(***************************************************************************)
Str(s) == [i \in 1..Len(s) |-> s[i]]

P_a == <<"/", "a">>

P_b == <<"/", "b">>

P_c == <<"/", "c">>

P_d == <<"/", "d">>

S_f == <<"f">>

S_g == <<"g">>

PT_LOAD == "PT_LOAD"

\* One entry of the program header table: the fields vaddr_to_file_offset reads.
Phdr(type, offset, vaddr, filesz) ==
    [p_type |-> type, p_offset |-> offset, p_vaddr |-> vaddr, p_filesz |-> filesz]

SHT_SYMTAB == "SHT_SYMTAB"

SHT_DYNSYM == "SHT_DYNSYM"

\* One entry of a symbol table: the fields resolve_symbol_offset reads.
Sym(name, value) == [st_name |-> name, st_value |-> value]

\* A section: its header's type and link, whether its sh_size bytes at
\* sh_offset can be allocated and read in full, and what they hold, as the
\* bytes of a string table and as the entries of a symbol table.
Section(type, link, read, bytes, syms) ==
    [sh_type |-> type, sh_link |-> link, read |-> read, bytes |-> bytes, syms |-> syms]

\* A string table section.
StrSec(bytes) == Section("SHT_STRTAB", 0, TRUE, bytes, <<>>)

\* A symbol table section of the given type whose names are in section link.
SymSec(type, link, syms) == Section(type, link, TRUE, <<>>, syms)

\* The string table "\0f\0g\0": f is at offset 1, g at offset 3.
Names == <<"NUL", "f", "NUL", "g", "NUL">>

\* An opened file.  ehdr_read: the ELF header is read in full; magic, class64:
\* e_ident holds the ELF magic and ELFCLASS64; shdrs_read: the section header
\* table is allocated and read in full; shdrs: that table (e_shnum entries);
\* phdrs, phdrs_read: the same for the program header table; after: the bytes
\* that follow a string table's buffer in memory.
File(ehdr_read, magic, class64, shdrs_read, e_shstrndx, shdrs, phdrs_read, phdrs, after) ==
    [exists |-> TRUE, ehdr_read |-> ehdr_read, magic |-> magic, class64 |-> class64,
     shdrs_read |-> shdrs_read, e_shstrndx |-> e_shstrndx, shdrs |-> shdrs,
     phdrs_read |-> phdrs_read, phdrs |-> phdrs, after |-> after]

\* A well-formed ELF64 image with one string table (section 0, also the
\* section-header string table), the symbol table sections symsecs after it,
\* and the program header table phdrs.
Elf64(symsecs, phdrs) ==
    File(TRUE, TRUE, TRUE, TRUE, 0, <<StrSec(Names)>> \o symsecs, TRUE, phdrs, <<"NUL">>)

\* A file that does not start with the ELF magic.
NotElf == File(TRUE, FALSE, FALSE, TRUE, 0, <<>>, TRUE, <<>>, <<"NUL">>)

\* /a and /b are ELF64 images, /c is a file that is no ELF image, /d does not exist.
\* /a has f at address 1 and g at address 2, /b has f at address 3.
FileSystem(path) ==
    CASE path = P_a -> Elf64(<<SymSec(SHT_SYMTAB, 0, <<Sym(1, 1), Sym(3, 2)>>)>>,
                             <<Phdr(PT_LOAD, 0, 0, 3)>>)
      [] path = P_b -> Elf64(<<SymSec(SHT_DYNSYM, 0, <<Sym(1, 3)>>)>>,
                             <<Phdr("PT_NOTE", 0, 3, 1), Phdr(PT_LOAD, 2, 2, 2)>>)
      [] path = P_c -> NotElf
      [] OTHER -> [NotElf EXCEPT !.exists = FALSE]

Paths == {P_a, P_b, P_c, P_d}

\* Elf64_Addr and Elf64_Off arithmetic is unsigned 64-bit arithmetic.
U64(n) == n % (U64_MAX + 1)

\* The load segment ph holds vaddr, as vaddr_to_file_offset tests it.
segment_holds(ph, vaddr) ==
    /\ ph.p_type = PT_LOAD
    /\ vaddr >= ph.p_vaddr
    /\ vaddr < U64(ph.p_vaddr + ph.p_filesz)

\* The file offset of vaddr in the segment ph.
segment_offset(ph, vaddr) == U64(ph.p_offset + U64(vaddr - ph.p_vaddr))

\* vaddr_to_file_offset: the file offset of vaddr by the first load segment of
\* the program header table that holds it; 0 when the table is empty, cannot
\* be allocated or read, or has no such segment.
vaddr_to_file_offset(file, vaddr) ==
    IF Len(file.phdrs) = 0 THEN 0
    ELSE IF ~file.phdrs_read THEN 0
    ELSE LET hits == {i \in 1..Len(file.phdrs) : segment_holds(file.phdrs[i], vaddr)}
         IN  IF hits = {} THEN 0
             ELSE LET i == CHOOSE h \in hits : \A k \in hits : h <= k
                  IN  segment_offset(file.phdrs[i], vaddr)

\* A read of element index of a buffer of size elements; sec is the section
\* the buffer holds (0 for the section header table itself).
Access(buf, index, size) == [buf |-> buf, sec |-> 0, index |-> index, size |-> size]

\* The reads of the loop over the entries of section symsec, whose names are
\* in section strsec.
InSections(reads, symsec, strsec) ==
    {[a EXCEPT !.sec = IF a.buf = "symtab" THEN symsec ELSE strsec] : a \in reads}

\* The result of the symbol search: whether an entry was found, sym_vaddr
\* (0 unless found), whether a read faulted, and the reads made.
SearchResult(found, sym_vaddr, fault, reads) ==
    [found |-> found, sym_vaddr |-> sym_vaddr, fault |-> fault, reads |-> reads]

NothingFound(reads) == SearchResult(FALSE, 0, FALSE, reads)

WithReads(r, reads) == [r EXCEPT !.reads = r.reads \cup reads]

\* The byte at offset pos of a string table's buffer: a byte of the table,
\* or, past its end, a byte of what follows the buffer in memory; past that,
\* the read faults.
ByteAt(strtab, after, pos) ==
    IF pos < Len(strtab) THEN strtab[pos + 1]
    ELSE IF pos - Len(strtab) < Len(after) THEN after[pos - Len(strtab) + 1]
    ELSE "FAULT"

\* strcmp(&strtab[st_name], symbol_name): the bytes are compared one by one
\* up to the first difference or the NUL that ends both; last is the offset of
\* the last byte read.  Nothing bounds the read by the size of the table.
strcmp(strtab, after, st_name, symbol_name) ==
    LET Name(k) == IF k < Len(symbol_name) THEN symbol_name[k + 1] ELSE "NUL"
        Same(k) == ByteAt(strtab, after, st_name + k) = Name(k)
        stop    == CHOOSE k \in 0..Len(symbol_name) :
                       /\ ~Same(k) \/ k = Len(symbol_name)
                       /\ \A m \in 0..(k - 1) : Same(m)
    IN  [equal |-> Same(stop),
         fault |-> ByteAt(strtab, after, st_name + stop) = "FAULT",
         last  |-> st_name + stop]

\* A faulty variant of the entry loop: an entry with the name is remembered
\* and the loop goes on, so that the last such entry of the table is taken.
RECURSIVE search_entries_KeepsLast(_, _, _, _, _)
search_entries_KeepsLast(symtab, strtab, after, symbol_name, j) ==
    IF j > Len(symtab) THEN NothingFound({})
    ELSE LET sym   == symtab[j]
             entry == {Access("symtab", j - 1, Len(symtab))}
             rest  == search_entries_KeepsLast(symtab, strtab, after, symbol_name, j + 1)
         IN  IF sym.st_name >= Len(strtab) THEN WithReads(rest, entry)
             ELSE LET c     == strcmp(strtab, after, sym.st_name, symbol_name)
                      bytes == {Access("strtab", pos, Len(strtab)) : pos \in sym.st_name..c.last}
                  IN  IF c.fault THEN SearchResult(FALSE, 0, TRUE, entry \cup bytes)
                      ELSE IF c.equal /\ ~rest.found
                           THEN SearchResult(TRUE, sym.st_value, rest.fault,
                                             entry \cup bytes \cup rest.reads)
                      ELSE WithReads(rest, entry \cup bytes)

\* The loop over the entries of one symbol table, from entry j (counted from
\* 1): an entry whose st_name is not inside the string table is passed over,
\* the first entry whose name equals symbol_name ends the search.
RECURSIVE search_entries(_, _, _, _, _)
search_entries(symtab, strtab, after, symbol_name, j) ==
    IF j > Len(symtab) THEN NothingFound({})
    ELSE LET sym   == symtab[j]
             entry == {Access("symtab", j - 1, Len(symtab))}
         IN  IF sym.st_name >= Len(strtab)
             THEN WithReads(search_entries(symtab, strtab, after, symbol_name, j + 1), entry)
             ELSE LET c     == strcmp(strtab, after, sym.st_name, symbol_name)
                      bytes == {Access("strtab", pos, Len(strtab)) : pos \in sym.st_name..c.last}
                  IN  IF c.fault THEN SearchResult(FALSE, 0, TRUE, entry \cup bytes)
                      ELSE IF c.equal
                           THEN SearchResult(TRUE, sym.st_value, FALSE, entry \cup bytes)
                      ELSE WithReads(search_entries(symtab, strtab, after, symbol_name, j + 1),
                                     entry \cup bytes)

\* A faulty variant of the section test: a section whose tables cannot be
\* read ends the scan.
SectionEndsScan_OnFailedRead(file, sh) ==
    /\ sh.sh_type \in {SHT_SYMTAB, SHT_DYNSYM}
    /\ sh.sh_link < Len(file.shdrs)
    /\ ~file.shdrs[sh.sh_link + 1].read \/ ~sh.read

\* The section ends the scan of the section headers: none does, the loop
\* goes on to the next section after every failure.
SectionEndsScan(file, sh) == FALSE

\* The loop over the section headers, from section i (counted from 1): a
\* section that is no symbol table, whose sh_link is no section index, or
\* whose string table or symbol table cannot be allocated and read in full is
\* passed over.
RECURSIVE search_sections(_, _, _)
search_sections(file, symbol_name, i) ==
    IF i > Len(file.shdrs) THEN NothingFound({})
    ELSE LET e_shnum == Len(file.shdrs)
             sh      == file.shdrs[i]
             header  == {Access("shdrs", i - 1, e_shnum)}
             next    == WithReads(search_sections(file, symbol_name, i + 1), header)
         IN  IF SectionEndsScan(file, sh) THEN NothingFound(header)
             ELSE IF sh.sh_type \notin {SHT_SYMTAB, SHT_DYNSYM} THEN next
             ELSE IF sh.sh_link >= e_shnum THEN next
             ELSE LET strsec == file.shdrs[sh.sh_link + 1]
                      link   == {Access("shdrs", sh.sh_link, e_shnum)}
                  IN  IF ~strsec.read THEN WithReads(next, link)
                      ELSE IF ~sh.read THEN WithReads(next, link)
                      ELSE LET found == search_entries(sh.syms, strsec.bytes, file.after,
                                                       symbol_name, 1)
                               r     == [found EXCEPT
                                            !.reads = InSections(@, i - 1, sh.sh_link)]
                           IN  IF r.found \/ r.fault THEN WithReads(r, header \cup link)
                               ELSE WithReads(next, link \cup r.reads)

\* The first part of resolve_symbol_offset: the ELF header, the section header
\* table and the section-header string table are read and checked, then the
\* symbol tables are searched.
symbol_search(file, symbol_name) ==
    IF ~file.ehdr_read THEN NothingFound({})
    ELSE IF ~file.magic THEN NothingFound({})
    ELSE IF ~file.class64 THEN NothingFound({})
    ELSE IF ~file.shdrs_read THEN NothingFound({})
    ELSE IF file.e_shstrndx >= Len(file.shdrs) THEN NothingFound({})
    ELSE LET shstr == {Access("shdrs", file.e_shstrndx, Len(file.shdrs))}
         IN  IF ~file.shdrs[file.e_shstrndx + 1].read THEN NothingFound(shstr)
             ELSE WithReads(search_sections(file, symbol_name, 1), shstr)

\* resolve_symbol_offset: the symbol's file offset, 0 when the file is no ELF64
\* image or holds no such symbol.  sym_vaddr starts as 0 and the conversion
\* is made only if the search left it different from 0.
resolve_symbol_offset(file, symbol_name) ==
    LET sym_vaddr == symbol_search(file, symbol_name).sym_vaddr
    IN  IF sym_vaddr # 0 THEN vaddr_to_file_offset(file, sym_vaddr) ELSE 0

\* Tasks: pid = tgid (single-threaded processes); 1 is init.
Tasks == 1..4

real_parent(t) == CASE t = 3 -> 2 [] OTHER -> 1

(***************************************************************************)
(* State                                                                   *)
(***************************************************************************)
VARIABLES
    speed_bump_targets,       \* the list, head first: a sequence of targets
    speed_bump_target_count,  \* atomic_t
    speed_bump_enabled,       \* atomic_t
    speed_bump_default_delay, \* u64
    speed_bump_total_hits,    \* atomic64_t updated by the handler
    speed_bump_total_delay,   \* atomic64_t updated by the handler
    percpu,                   \* speed_bump_hits_percpu / speed_bump_delay_percpu
    speed_bump_mutex,         \* "free", or the context holding it: "ctl", "exit"
    ctl,                      \* the context writing to the targets file
    exitctx,                  \* the context running speed_bump_exit
    uprobes,                  \* consumers registered with the uprobe subsystem
    i_count,                  \* inode references taken by igrab, per path
    handlers,                 \* per CPU: the handler invocation running there
    ntrig,                    \* probe triggers so far
    spun,                     \* history: per key and in total, the hits that passed
                              \* the checks and the delays that were spun for them
    call                      \* a call of a function that touches no module state:
                              \* its arguments and, once it returned, its result

vars == <<speed_bump_targets, speed_bump_target_count, speed_bump_enabled,
          speed_bump_default_delay, speed_bump_total_hits, speed_bump_total_delay,
          percpu, speed_bump_mutex, ctl, exitctx, uprobes, i_count, handlers, ntrig,
          spun, call>>

CPUs == 1..NumCPUs

KeyOf(t) == <<t.path, t.symbol>>

Keys == {KeyOf(speed_bump_targets[i]) : i \in 1..Len(speed_bump_targets)}

NoKey == <<>>

NoReq == [ret |-> "OK", path |-> <<>>, symbol |-> <<>>, delay_ns |-> 0, pid_filter |-> 0]

\* The context is outside any call; ret is what its last call returned and,
\* after an add, calls are the calls it made to the file system and to the
\* uprobe subsystem.  Inside a call, count is the number of bytes of the write
\* being served.
Idle(ret) ==
    [pc |-> "idle", kind |-> "none", req |-> NoReq, cur |-> NoKey, ret |-> ret,
     count |-> 0, calls |-> {}]

HIdle == [pc |-> "idle", target |-> NoKey, delay |-> 0]

NoSpin == [hits |-> 0, delay |-> 0]

\* A lookup that returns the head of the list whatever it is asked for.
find_target_Head(path, symbol) == IF speed_bump_targets = <<>> THEN 0 ELSE 1

\* find_target: index of the first target with this path and symbol, 0 for NULL.
find_target(path, symbol) ==
    LET Match(i) == speed_bump_targets[i].path = path
                    /\ speed_bump_targets[i].symbol = symbol
    IN  IF \E i \in 1..Len(speed_bump_targets) : Match(i)
        THEN CHOOSE i \in 1..Len(speed_bump_targets) :
                 Match(i) /\ \A j \in 1..(i - 1) : ~Match(j)
        ELSE 0

\* The target a handler's uprobe_consumer is embedded in (container_of).
IsAllocated(key) == find_target(key[1], key[2]) # 0

TargetAt(key) == speed_bump_targets[find_target(key[1], key[2])]

\* No call of a stateless function is under way.
NoCall == [fn |-> "none"]

\* The module without targets and counts, with the given enabled flag.
ModuleState(enabled) ==
    /\ speed_bump_targets = <<>>
    /\ speed_bump_target_count = 0
    /\ speed_bump_enabled = enabled
    /\ speed_bump_default_delay = SPEED_BUMP_DEFAULT_DELAY_NS
    /\ speed_bump_total_hits = 0
    /\ speed_bump_total_delay = 0
    /\ percpu = [c \in CPUs |-> [hits |-> 0, delay |-> 0]]
    /\ speed_bump_mutex = "free"
    /\ ctl = Idle("OK")
    /\ exitctx = [pc |-> "loaded", cur |-> NoKey]
    /\ uprobes = {}
    /\ i_count = [p \in Paths |-> 0]
    /\ handlers = [c \in CPUs |-> HIdle]
    /\ ntrig = 0
    /\ spun = [keys |-> [k \in {} |-> NoSpin], total |-> NoSpin]

\* The module after speed_bump_init: disabled.
InitModule == ModuleState(0)

Init == InitModule /\ call = NoCall

(***************************************************************************)
(* Uprobe registration (speed_bump_uprobe.c)                               *)
(***************************************************************************)
\* The calls speed_bump_register_uprobe has made when it returns after the
\* symbol resolution, and after uprobe_register.
ResolveCalls == {"kern_path", "filp_open", "resolve_symbol_offset"}

AttachCalls == ResolveCalls \cup {"uprobe_register"}

\* speed_bump_register_uprobe without the test for an unresolved symbol.
speed_bump_register_uprobe_NoOffsetTest(target, reg_err) ==
    LET file == FileSystem(target.path)
        offset == resolve_symbol_offset(file, target.symbol)
    IN  IF target.registered
        THEN [ret |-> "OK", target |-> target, igrab |-> 0, calls |-> {}]
        ELSE IF ~file.exists
        THEN [ret |-> "ENOENT", target |-> target, igrab |-> 0, calls |-> {"kern_path"}]
        ELSE IF reg_err # "OK"
             THEN [ret |-> reg_err, target |-> [target EXCEPT !.offset = offset],
                   igrab |-> 1 - 1, calls |-> AttachCalls]
        ELSE [ret |-> "OK",
              target |-> [target EXCEPT !.offset = offset, !.inode = target.path,
                                        !.registered = TRUE],
              igrab |-> 1, calls |-> AttachCalls]

\* speed_bump_register_uprobe without the iput on the path where
\* uprobe_register fails.
speed_bump_register_uprobe_KeepsInode(target, reg_err) ==
    LET file == FileSystem(target.path)
        offset == resolve_symbol_offset(file, target.symbol)
    IN  IF target.registered
        THEN [ret |-> "OK", target |-> target, igrab |-> 0, calls |-> {}]
        ELSE IF ~file.exists
        THEN [ret |-> "ENOENT", target |-> target, igrab |-> 0, calls |-> {"kern_path"}]
        ELSE IF offset = 0
             THEN [ret |-> "ENOENT", target |-> [target EXCEPT !.offset = 0], igrab |-> 1 - 1,
                   calls |-> ResolveCalls]
        ELSE IF reg_err # "OK"
             THEN [ret |-> reg_err, target |-> [target EXCEPT !.offset = offset],
                   igrab |-> 1, calls |-> AttachCalls]
        ELSE [ret |-> "OK",
              target |-> [target EXCEPT !.offset = offset, !.inode = target.path,
                                        !.registered = TRUE],
              igrab |-> 1, calls |-> AttachCalls]

\* speed_bump_register_uprobe on a freshly allocated target.  reg_err is what
\* uprobe_register returns ("OK" or an errno).  igrab counts the inode
\* references the call still holds when it returns.
speed_bump_register_uprobe(target, reg_err) ==
    LET file == FileSystem(target.path)
        offset == resolve_symbol_offset(file, target.symbol)
    IN  IF target.registered
        THEN [ret |-> "OK", target |-> target, igrab |-> 0, calls |-> {}]
        ELSE IF ~file.exists
        THEN [ret |-> "ENOENT", target |-> target, igrab |-> 0, calls |-> {"kern_path"}]
        ELSE IF offset = 0
             THEN [ret |-> "ENOENT", target |-> [target EXCEPT !.offset = 0], igrab |-> 1 - 1,
                   calls |-> ResolveCalls]
        ELSE IF reg_err # "OK"
             THEN [ret |-> reg_err, target |-> [target EXCEPT !.offset = offset],
                   igrab |-> 1 - 1, calls |-> AttachCalls]
        ELSE [ret |-> "OK",
              target |-> [target EXCEPT !.offset = offset, !.inode = target.path,
                                        !.registered = TRUE],
              igrab |-> 1, calls |-> AttachCalls]

\* An unregistration that does not wait for running handlers (nosync only).
UnregisterSyncReturns_NoWait(key) == TRUE

\* uprobe_unregister_sync() / uprobe_unregister(): returns only when no handler
\* invocation for the consumer is still running.
UnregisterSyncReturns(key) == \A c \in CPUs : handlers[c].target # key

(***************************************************************************)
(* Control path (speed_bump_main.c)                                        *)
(***************************************************************************)
\* A lookup that gives up after the head of the list.
IsDuplicate_HeadOnly(path, symbol) ==
    /\ speed_bump_targets # <<>>
    /\ speed_bump_targets[1].path = path
    /\ speed_bump_targets[1].symbol = symbol

IsDuplicate(path, symbol) == find_target(path, symbol) # 0

\* The capacity test written with > for >=.
AtCapacity_OffByOne == speed_bump_target_count > SPEED_BUMP_MAX_TARGETS

AtCapacity == speed_bump_target_count >= SPEED_BUMP_MAX_TARGETS

NewTarget(req) ==
    [path |-> req.path, symbol |-> req.symbol, delay_ns |-> req.delay_ns,
     pid_filter |-> req.pid_filter, offset |-> 0, hit_count |-> 0,
     total_delay_ns |-> 0, inode |-> <<>>, registered |-> FALSE]

\* An unlink that always takes the head of the list.
RemoveAt_Head(s, i) == Tail(s)

RemoveAt(s, i) == SubSeq(s, 1, i - 1) \o SubSeq(s, i + 1, Len(s))

Without(f, k) == [x \in (DOMAIN f) \ {k} |-> f[x]]

\* sysfs files exist from module init until sysfs_remove_group in speed_bump_exit.
SysfsOpen == exitctx.pc \in {"loaded", "disabled", "freeing"}

HotFrame == UNCHANGED <<speed_bump_total_hits, speed_bump_total_delay, percpu, handlers,
                        ntrig, call>>

CtlFrame == HotFrame /\ UNCHANGED <<speed_bump_enabled, exitctx>>

RegistryFrame == UNCHANGED <<speed_bump_targets, speed_bump_target_count,
                             speed_bump_default_delay, speed_bump_mutex, uprobes,
                             i_count, spun>>

\* A write to the targets file returns ret without having taken the lock.
Return(ret) ==
    /\ ctl' = Idle(ret)
    /\ RegistryFrame
    /\ CtlFrame

\* add_target up to mutex_lock: the parse, which reads speed_bump_default_delay.
add_target_parse(spec) ==
    LET req == parse_target_spec(spec, speed_bump_default_delay)
    IN  IF req.ret # "OK" THEN Return(req.ret)
        ELSE /\ ctl' = [pc |-> "parsed", kind |-> "add", req |-> req, cur |-> NoKey,
                        ret |-> "OK", count |-> Len(spec) + 1, calls |-> {}]
             /\ RegistryFrame
             /\ CtlFrame

\* add_target without the "goto out_unlock" after a failed registration.
RegisterSucceeded_FallThrough(ret) == TRUE

\* list_add() for list_add_tail(): the new entry goes in right after the head.
list_add(new, head) == <<new>> \o head

\* list_add_tail(&target->list, &speed_bump_targets).
list_add_tail(new, head) == Append(head, new)

\* An add that registers the uprobe before it tests for a duplicate and for
\* the capacity.
AddCalls_RegisterFirst(reached, reg, alloc_ok) == IF alloc_ok THEN reg.calls ELSE {}

\* The calls add_target makes: those of speed_bump_register_uprobe, which it
\* reaches after the tests for a duplicate and the capacity and after kzalloc.
AddCalls(reached, reg, alloc_ok) == IF reached THEN reg.calls ELSE {}

\* Line 260, "if (ret)": whether add_target goes on to link the target.
RegisterSucceeded(ret) == ret = "OK"

\* add_target from mutex_lock to mutex_unlock.  alloc_ok: kzalloc succeeds.
add_target_locked(alloc_ok, reg_err) ==
    LET req == ctl.req
        reached == ~IsDuplicate(req.path, req.symbol) /\ ~AtCapacity /\ alloc_ok
        reg == speed_bump_register_uprobe(NewTarget(req), reg_err)
        ret == IF IsDuplicate(req.path, req.symbol) THEN "EEXIST"
               ELSE IF AtCapacity THEN "ENOSPC"
               ELSE IF ~alloc_ok THEN "ENOMEM"
               ELSE reg.ret
    IN  /\ ctl.pc = "parsed"
        /\ ctl.kind = "add"
        /\ speed_bump_mutex = "free"
        /\ ctl' = [Idle(ret) EXCEPT !.calls = AddCalls(reached, reg, alloc_ok)]
        /\ i_count' = IF reached THEN [i_count EXCEPT ![req.path] = @ + reg.igrab]
                      ELSE i_count
        /\ IF reached /\ RegisterSucceeded(reg.ret)
           THEN /\ speed_bump_targets' = list_add_tail(reg.target, speed_bump_targets)
                /\ speed_bump_target_count' = speed_bump_target_count + 1
                /\ uprobes' = IF reg.target.registered THEN uprobes \cup {KeyOf(reg.target)}
                              ELSE uprobes
                /\ spun' = [spun EXCEPT !.keys = [k \in DOMAIN @ \cup {KeyOf(reg.target)} |->
                                IF k = KeyOf(reg.target) THEN NoSpin ELSE @[k]]]
           ELSE UNCHANGED <<speed_bump_targets, speed_bump_target_count, uprobes, spun>>
        /\ UNCHANGED <<speed_bump_default_delay, speed_bump_mutex>>
        /\ CtlFrame

\* update_target up to mutex_lock.
\* update_target without the assignment to delay_ns.
update_target_locked_KeepsDelay ==
    LET req == ctl.req
        i == find_target(req.path, req.symbol)
    IN  /\ ctl.pc = "parsed"
        /\ ctl.kind = "update"
        /\ speed_bump_mutex = "free"
        /\ IF i = 0
           THEN /\ ctl' = Idle("ENOENT")
                /\ UNCHANGED speed_bump_targets
           ELSE /\ ctl' = Idle("OK")
                /\ speed_bump_targets' =
                       [speed_bump_targets EXCEPT
                           ![i].pid_filter = IF req.pid_filter # 0 THEN req.pid_filter ELSE @]
        /\ UNCHANGED <<speed_bump_target_count, speed_bump_default_delay, speed_bump_mutex,
                       uprobes, i_count, spun>>
        /\ CtlFrame

\* update_target without the test of pid_filter before the assignment.
update_target_locked_AlwaysSetsPid ==
    LET req == ctl.req
        i == find_target(req.path, req.symbol)
    IN  /\ ctl.pc = "parsed"
        /\ ctl.kind = "update"
        /\ speed_bump_mutex = "free"
        /\ IF i = 0
           THEN /\ ctl' = Idle("ENOENT")
                /\ UNCHANGED speed_bump_targets
           ELSE /\ ctl' = Idle("OK")
                /\ speed_bump_targets' =
                       [speed_bump_targets EXCEPT
                           ![i].delay_ns = req.delay_ns,
                           ![i].pid_filter = req.pid_filter]
        /\ UNCHANGED <<speed_bump_target_count, speed_bump_default_delay, speed_bump_mutex,
                       uprobes, i_count, spun>>
        /\ CtlFrame

\* A faulty variant of the locked part of the update: the path that finds no
\* target returns with the lock held.
update_target_locked_KeepsLock ==
    LET req == ctl.req
        i == find_target(req.path, req.symbol)
    IN  /\ ctl.pc = "parsed"
        /\ ctl.kind = "update"
        /\ speed_bump_mutex = "free"
        /\ IF i = 0
           THEN /\ ctl' = Idle("ENOENT")
                /\ speed_bump_mutex' = "ctl"
                /\ UNCHANGED speed_bump_targets
           ELSE /\ ctl' = Idle("OK")
                /\ UNCHANGED speed_bump_mutex
                /\ speed_bump_targets' =
                       [speed_bump_targets EXCEPT
                           ![i].delay_ns = req.delay_ns,
                           ![i].pid_filter = IF req.pid_filter # 0 THEN req.pid_filter ELSE @]
        /\ UNCHANGED <<speed_bump_target_count, speed_bump_default_delay,
                       uprobes, i_count, spun>>
        /\ CtlFrame

update_target_parse(spec) ==
    LET req == parse_target_spec(spec, speed_bump_default_delay)
    IN  IF req.ret # "OK" THEN Return(req.ret)
        ELSE /\ ctl' = [pc |-> "parsed", kind |-> "update", req |-> req, cur |-> NoKey,
                        ret |-> "OK", count |-> Len(spec) + 1, calls |-> {}]
             /\ RegistryFrame
             /\ CtlFrame

\* update_target from mutex_lock to mutex_unlock.
update_target_locked ==
    LET req == ctl.req
        i == find_target(req.path, req.symbol)
    IN  /\ ctl.pc = "parsed"
        /\ ctl.kind = "update"
        /\ speed_bump_mutex = "free"
        /\ IF i = 0
           THEN /\ ctl' = Idle("ENOENT")
                /\ UNCHANGED speed_bump_targets
           ELSE /\ ctl' = Idle("OK")
                /\ speed_bump_targets' =
                       [speed_bump_targets EXCEPT
                           ![i].delay_ns = req.delay_ns,
                           ![i].pid_filter = IF req.pid_filter # 0 THEN req.pid_filter ELSE @]
        /\ UNCHANGED <<speed_bump_target_count, speed_bump_default_delay, speed_bump_mutex,
                       uprobes, i_count, spun>>
        /\ CtlFrame

\* free_target, first part: speed_bump_unregister_uprobe removes the consumer
\* (uprobe_unregister_nosync), after which no new invocation starts for it.
free_target_detach(key) ==
    /\ uprobes' = IF TargetAt(key).registered THEN uprobes \ {key} ELSE uprobes
    /\ UNCHANGED <<speed_bump_targets, speed_bump_target_count, i_count, spun>>

\* free_target without the atomic_dec of speed_bump_target_count.
free_target_release_NoDec(key) ==
    LET i == find_target(key[1], key[2])
    IN  /\ speed_bump_targets' = RemoveAt(speed_bump_targets, i)
        /\ speed_bump_target_count' = speed_bump_target_count
        /\ i_count' = IF speed_bump_targets[i].registered
                      THEN [i_count EXCEPT ![key[1]] = @ - 1] ELSE i_count
        /\ spun' = [spun EXCEPT !.keys = Without(@, key)]

\* free_target, second part, once the wait for in-flight handlers is over: the
\* inode is put, the target is unlinked, counted out and freed.
free_target_release(key) ==
    LET i == find_target(key[1], key[2])
    IN  /\ speed_bump_targets' = RemoveAt(speed_bump_targets, i)
        /\ speed_bump_target_count' = speed_bump_target_count - 1
        /\ i_count' = IF speed_bump_targets[i].registered
                      THEN [i_count EXCEPT ![key[1]] = @ - 1] ELSE i_count
        /\ spun' = [spun EXCEPT !.keys = Without(@, key)]

\* A loop that stops after the first free_target.
ListAfterFree_Empty(key) == <<>>

\* The list after free_target(key).
ListAfterFree(key) == RemoveAt(speed_bump_targets, find_target(key[1], key[2]))

\* remove_target: the parse, mutex_lock, and either the lookup that fails or the
\* start of the first free_target.
remove_target(spec) ==
    LET colon == strchr(spec, ":", 1)
        plen == colon - 1
        path == SubSeq(spec, 1, plen)
        after == SubSeq(spec, colon + 1, Len(spec))
        slen == StripNewline(after, Len(after))
        symbol == SubSeq(after, 1, slen)
        Begin(kind, key) ==
            /\ ctl' = [pc |-> "sync", kind |-> kind, req |-> NoReq, cur |-> key,
                       ret |-> "OK", count |-> Len(spec) + 1, calls |-> {}]
            /\ speed_bump_mutex' = "ctl"
            /\ free_target_detach(key)
            /\ UNCHANGED speed_bump_default_delay
            /\ CtlFrame
    IN  IF spec # <<>> /\ spec[1] = "*" /\ (Len(spec) = 1 \/ spec[2] = "\n")
        THEN /\ speed_bump_mutex = "free"
             /\ IF speed_bump_targets = <<>>
                THEN Return("OK")
                ELSE Begin("remove_all", KeyOf(speed_bump_targets[1]))
        ELSE IF colon = 0 THEN Return("EINVAL")
        ELSE IF plen = 0 \/ plen >= SPEED_BUMP_MAX_PATH_LEN
             THEN Return("ENAMETOOLONG")
        ELSE IF slen = 0 \/ slen >= SPEED_BUMP_MAX_SYMBOL_LEN
             THEN Return("ENAMETOOLONG")
        ELSE /\ speed_bump_mutex = "free"
             /\ IF find_target(path, symbol) = 0
                THEN Return("ENOENT")
                ELSE Begin("remove", <<path, symbol>>)

\* remove_target after the wait in free_target: the target is released; remove-all
\* goes on to detach the next target, otherwise the mutex is unlocked.
remove_target_finish ==
    LET left == ListAfterFree(ctl.cur)
    IN  /\ ctl.pc = "sync"
        /\ UnregisterSyncReturns(ctl.cur)
        /\ free_target_release(ctl.cur)
        /\ IF ctl.kind = "remove_all" /\ left # <<>>
           THEN /\ uprobes' = IF left[1].registered THEN uprobes \ {KeyOf(left[1])}
                              ELSE uprobes
                /\ ctl' = [ctl EXCEPT !.cur = KeyOf(left[1])]
                /\ UNCHANGED speed_bump_mutex
           ELSE /\ ctl' = Idle("OK")
                /\ speed_bump_mutex' = "free"
                /\ UNCHANGED uprobes
        /\ UNCHANGED speed_bump_default_delay
        /\ CtlFrame

\* targets_store: one write to the targets file.
\* A length test that also refuses a line of exactly SPEED_BUMP_MAX_LINE_LEN bytes.
LineTooLong_OffByOne(count) == count >= SPEED_BUMP_MAX_LINE_LEN

\* "count > SPEED_BUMP_MAX_LINE_LEN".
LineTooLong(count) == count > SPEED_BUMP_MAX_LINE_LEN

\* What targets_store returns to the writer of count bytes when the command
\* returned ret: "return ret ? ret : count".
targets_store_return(ret, count) == IF ret # "OK" THEN ret ELSE count

targets_store(buf) ==
    /\ SysfsOpen
    /\ ctl.pc = "idle"
    /\ IF Len(buf) = 0 \/ LineTooLong(Len(buf))
       THEN Return("EINVAL")
       ELSE CASE buf[1] = "+" -> add_target_parse(Tail(buf))
              [] buf[1] = "-" -> remove_target(Tail(buf))
              [] buf[1] = "=" -> update_target_parse(Tail(buf))
              [] OTHER -> Return("EINVAL")

(***************************************************************************)
(* Module exit                                                             *)
(***************************************************************************)
\* speed_bump_exit, line 614: atomic_set(&speed_bump_enabled, 0).
speed_bump_exit_disable ==
    /\ exitctx.pc = "loaded"
    /\ exitctx' = [exitctx EXCEPT !.pc = "disabled"]
    /\ speed_bump_enabled' = 0
    /\ UNCHANGED ctl
    /\ RegistryFrame
    /\ HotFrame

\* speed_bump_exit, mutex_lock and the start of the loop over the list.
speed_bump_exit_lock ==
    /\ exitctx.pc = "disabled"
    /\ speed_bump_mutex = "free"
    /\ IF speed_bump_targets = <<>>
       THEN /\ exitctx' = [pc |-> "draining", cur |-> NoKey]
            /\ RegistryFrame
       ELSE /\ exitctx' = [pc |-> "freeing", cur |-> KeyOf(speed_bump_targets[1])]
            /\ speed_bump_mutex' = "exit"
            /\ free_target_detach(KeyOf(speed_bump_targets[1]))
            /\ UNCHANGED speed_bump_default_delay
    /\ UNCHANGED <<ctl, speed_bump_enabled>>
    /\ HotFrame

\* speed_bump_exit, one free_target of the loop completing; mutex_unlock after
\* the last one.
speed_bump_exit_free ==
    LET left == ListAfterFree(exitctx.cur)
    IN  /\ exitctx.pc = "freeing"
        /\ UnregisterSyncReturns(exitctx.cur)
        /\ free_target_release(exitctx.cur)
        /\ IF left # <<>>
           THEN /\ uprobes' = IF left[1].registered THEN uprobes \ {KeyOf(left[1])}
                              ELSE uprobes
                /\ exitctx' = [exitctx EXCEPT !.cur = KeyOf(left[1])]
                /\ UNCHANGED speed_bump_mutex
           ELSE /\ exitctx' = [pc |-> "draining", cur |-> NoKey]
                /\ speed_bump_mutex' = "free"
                /\ UNCHANGED uprobes
        /\ UNCHANGED <<ctl, speed_bump_enabled, speed_bump_default_delay>>
        /\ HotFrame

\* speed_bump_exit, sysfs_remove_group: returns once no sysfs operation is active.
speed_bump_exit_sysfs ==
    /\ exitctx.pc = "draining"
    /\ ctl.pc = "idle"
    /\ exitctx' = [exitctx EXCEPT !.pc = "unloaded"]
    /\ UNCHANGED <<ctl, speed_bump_enabled>>
    /\ RegistryFrame
    /\ HotFrame

(***************************************************************************)
(* The other sysfs files.  They run in contexts of their own, at any time. *)
(***************************************************************************)
\* enabled_store: the value the flag takes and the return value.
\* A store that takes every non-zero number for 1.
enabled_store_result_AnyNonZero(buf) ==
    LET r == kstrtoint(buf)
    IN  IF r.ret # "OK" THEN [ret |-> r.ret, enabled |-> speed_bump_enabled]
        ELSE [ret |-> "OK", enabled |-> IF r.val = 0 THEN 0 ELSE 1]

enabled_store_result(buf) ==
    LET r == kstrtoint(buf)
    IN  IF r.ret # "OK" THEN [ret |-> r.ret, enabled |-> speed_bump_enabled]
        ELSE IF r.val # 0 /\ r.val # 1 THEN [ret |-> "EINVAL", enabled |-> speed_bump_enabled]
        ELSE [ret |-> "OK", enabled |-> r.val]

enabled_store(buf) ==
    /\ SysfsOpen
    /\ speed_bump_enabled' = enabled_store_result(buf).enabled
    /\ UNCHANGED <<ctl, exitctx>>
    /\ RegistryFrame
    /\ HotFrame

\* default_delay_ns_store: the value the default takes and the return value.
\* A store that omits the test against SPEED_BUMP_MAX_DELAY_NS.
default_delay_ns_store_result_NoRangeTest(buf) ==
    LET r == kstrtou64(buf)
    IN  IF r.ret # "OK" THEN [ret |-> r.ret, val |-> speed_bump_default_delay]
        ELSE [ret |-> "OK", val |-> r.val]

default_delay_ns_store_result(buf) ==
    LET r == kstrtou64(buf)
    IN  IF r.ret # "OK" THEN [ret |-> r.ret, val |-> speed_bump_default_delay]
        ELSE IF r.val > SPEED_BUMP_MAX_DELAY_NS
             THEN [ret |-> "ERANGE", val |-> speed_bump_default_delay]
        ELSE [ret |-> "OK", val |-> r.val]

\* A store that also rewrites the delay of every registered target.
default_delay_ns_store_Retroactive(buf) ==
    /\ SysfsOpen
    /\ speed_bump_default_delay' = default_delay_ns_store_result(buf).val
    /\ speed_bump_targets' =
           [i \in 1..Len(speed_bump_targets) |->
               [speed_bump_targets[i] EXCEPT
                   !.delay_ns = default_delay_ns_store_result(buf).val]]
    /\ UNCHANGED <<speed_bump_target_count, speed_bump_mutex, uprobes,
                   i_count, spun, ctl, exitctx, speed_bump_enabled>>
    /\ HotFrame

default_delay_ns_store(buf) ==
    /\ SysfsOpen
    /\ speed_bump_default_delay' = default_delay_ns_store_result(buf).val
    /\ UNCHANGED <<speed_bump_targets, speed_bump_target_count, speed_bump_mutex, uprobes,
                   i_count, spun, ctl, exitctx, speed_bump_enabled>>
    /\ HotFrame

\* aggregate_percpu_hits / aggregate_percpu_delay: the sum over the possible CPUs.
RECURSIVE SumPerCpu(_, _)
SumPerCpu(field, cpu) ==
    IF cpu = 0 THEN 0 ELSE percpu[cpu][field] + SumPerCpu(field, cpu - 1)

aggregate_percpu_hits == SumPerCpu("hits", NumCPUs)

aggregate_percpu_delay == SumPerCpu("delay", NumCPUs)

\* stats_show: the four values it prints.  It takes no lock.
stats_show ==
    [enabled |-> speed_bump_enabled, targets |-> speed_bump_target_count,
     total_hits |-> aggregate_percpu_hits, total_delay_ns |-> aggregate_percpu_delay]

\* targets_list_show: one line per target, in list order, read under the mutex.
targets_list_show ==
    [i \in 1..Len(speed_bump_targets) |->
        LET t == speed_bump_targets[i]
        IN  [path |-> t.path, symbol |-> t.symbol, delay_ns |-> t.delay_ns,
             hits |-> t.hit_count, pid |-> t.pid_filter, has_pid |-> t.pid_filter # 0]]

\* A read of targets_list, stats, enabled or default_delay_ns changes nothing;
\* targets_list needs the mutex.
sysfs_show(file) ==
    /\ SysfsOpen
    /\ file = "targets_list" => speed_bump_mutex = "free"
    /\ UNCHANGED vars

(***************************************************************************)
(* Hot path: speed_bump_uprobe_handler                                     *)
(***************************************************************************)
\* An increment whose update is lost.
atomic64_inc_Lost(v) == v

atomic64_inc(v) == v + 1

atomic64_add(i, v) == v + i

\* A handler that never tests speed_bump_enabled.
HandlerDisabled_NoTest == FALSE

\* The handler's first test, on the value of speed_bump_enabled it reads.
HandlerDisabled == speed_bump_enabled = 0

\* The walk up the process tree from task: TRUE when a task with tgid = filter
\* is met before init.
RECURSIVE PidMatch(_, _)
PidMatch(task, filter) ==
    IF task = 1 THEN FALSE
    ELSE IF task = filter THEN TRUE
    ELSE PidMatch(real_parent(task), filter)

\* A probe fires on cpu in task for the consumer of key: lines 41-67, up to the
\* start of the spin delay.
handler_enter(cpu, key, task) ==
    LET target == TargetAt(key)
        pass == ~HandlerDisabled
                /\ (target.pid_filter = 0 \/ PidMatch(task, target.pid_filter))
    IN  /\ exitctx.pc # "unloaded"
        /\ handlers[cpu].pc = "idle"
        /\ key \in uprobes
        /\ IsAllocated(key)
        /\ ntrig < MaxTriggers
        /\ ntrig' = ntrig + 1
        /\ IF pass
           THEN /\ handlers' = [handlers EXCEPT ![cpu] =
                        [pc |-> "spin", target |-> key, delay |-> target.delay_ns]]
                /\ spun' = [spun EXCEPT
                        !.keys[key] = [hits |-> @.hits + 1, delay |-> @.delay + target.delay_ns],
                        !.total = [hits |-> @.hits + 1, delay |-> @.delay + target.delay_ns]]
           ELSE UNCHANGED <<handlers, spun>>
        /\ UNCHANGED <<speed_bump_targets, speed_bump_target_count, speed_bump_enabled,
                       speed_bump_default_delay, speed_bump_total_hits,
                       speed_bump_total_delay, percpu, speed_bump_mutex, ctl, exitctx,
                       uprobes, i_count, call>>

\* A faulty variant of the end of the handler: the counters are updated under
\* the registry lock, so the handler waits while a control operation holds it.
handler_stats_WaitsForLock(cpu) ==
    LET key == handlers[cpu].target
        i == find_target(key[1], key[2])
        delay_ns == IF i = 0 THEN 0 ELSE speed_bump_targets[i].delay_ns
    IN  /\ handlers[cpu].pc = "spin"
        /\ speed_bump_mutex = "free"
        /\ handlers' = [handlers EXCEPT ![cpu] = HIdle]
        /\ speed_bump_targets' =
               IF i = 0 THEN speed_bump_targets
               ELSE [speed_bump_targets EXCEPT
                        ![i].hit_count = atomic64_inc(@),
                        ![i].total_delay_ns = atomic64_add(delay_ns, @)]
        /\ speed_bump_total_hits' = atomic64_inc(speed_bump_total_hits)
        /\ speed_bump_total_delay' = atomic64_add(delay_ns, speed_bump_total_delay)
        /\ UNCHANGED <<speed_bump_target_count, speed_bump_enabled,
                       speed_bump_default_delay, percpu, speed_bump_mutex, ctl, exitctx,
                       uprobes, i_count, ntrig, spun, call>>

\* The spin delay is over; lines 70-75: the four atomic additions, then return.
\* A target whose memory was freed has no counters left to update.
handler_stats(cpu) ==
    LET key == handlers[cpu].target
        i == find_target(key[1], key[2])
        delay_ns == IF i = 0 THEN 0 ELSE speed_bump_targets[i].delay_ns
    IN  /\ handlers[cpu].pc = "spin"
        /\ handlers' = [handlers EXCEPT ![cpu] = HIdle]
        /\ speed_bump_targets' =
               IF i = 0 THEN speed_bump_targets
               ELSE [speed_bump_targets EXCEPT
                        ![i].hit_count = atomic64_inc(@),
                        ![i].total_delay_ns = atomic64_add(delay_ns, @)]
        /\ speed_bump_total_hits' = atomic64_inc(speed_bump_total_hits)
        /\ speed_bump_total_delay' = atomic64_add(delay_ns, speed_bump_total_delay)
        /\ UNCHANGED <<speed_bump_target_count, speed_bump_enabled,
                       speed_bump_default_delay, percpu, speed_bump_mutex, ctl, exitctx,
                       uprobes, i_count, ntrig, spun, call>>

(***************************************************************************)
(* Inputs                                                                  *)
(***************************************************************************)
TargetLines ==
    { <<"+", "/", "a", ":", "f">>,
      <<"+", "/", "a", ":", "f", " ", "2">>,
      <<"+", "/", "a", ":", "g", " ", "p", "i", "d", "=", "2">>,
      <<"+", "/", "b", ":", "f", " ", "3", " ", "p", "i", "d", "=", "2">>,
      <<"+", "/", "b", ":", "g">>,
      <<"+", "/", "c", ":", "f">>,
      <<"+", "/", "d", ":", "f">>,
      <<"+", "a", ":", "f">>,
      <<"+", "/", "a", ":", "f", " ", "9">>,
      <<"+", "/", "a", ":", "f", " ", "4">>,
      <<"+", "/", "a", ":", "f", " ", "5">>,
      <<"+", "/", "a", ":", "f", " ", "9", "9">>,
      <<"+", "/", "a", ":", "f", " ", "x">>,
      <<"+", "/", "a", ":", "f", " ", "0", "0", "3", " ", "p", "i", "d", "=", "2">>,
      <<"+", "/", "a", ":", "f", " ", "0", "0", "0", "3", " ", "p", "i", "d", "=", "2">>,
      <<"+", "/", "a", ":", "g", " ", "2", " ", "p", "i", "d", "=", "-", "1">>,
      <<"+", "/", "b", ":", "f", " ", "2", " ", "p", "i", "d", "=", "0">>,
      <<"+", "/", "b", ":", "f", " ", "3", " ", "p", "i", "d", "=", "2", "\n">>,
      <<"-", "/", "a", ":", "f">>,
      <<"-", "/", "a", ":", "g", "\n">>,
      <<"-", "/", "b", ":", "f">>,
      <<"-", "/", "d", ":", "f">>,
      <<"-", "*">>,
      <<"-", "a", "f">>,
      <<"=", "/", "a", ":", "f", " ", "2">>,
      <<"=", "/", "a", ":", "f">>,
      <<"=", "/", "a", ":", "g", " ", "3", " ", "p", "i", "d", "=", "4">>,
      <<"=", "/", "d", ":", "f", " ", "2">>,
      <<"=", "/", "a", ":", "f", " ", "9">>,
      <<"=", "/", "a", ":", "f", " ", "4">>,
      <<"=", "/", "a", ":", "f", " ", "x">>,
      <<"+", "/", "a", ":", "f", " ", "9", " ", "p", "i", "d", "=", "2">>,
      <<"+", "/", "a", ":", "f", " ", "0", "0", "9", " ", "p", "i", "d", "=", "2">>,
      <<"?", "/", "a", ":", "f">>,
      <<>> }

EnabledBufs == { <<"0">>, <<"1", "\n">>, <<"2">>, <<"x">> }

DefaultDelayBufs == { <<"1">>, <<"3", "\n">>, <<"9">>, <<"x">> }

SysfsFiles == {"enabled", "targets_list", "stats", "default_delay_ns"}

\* What uprobe_register can return.
RegisterErrs == {"OK", "EIO"}

\* The commands of the hot-path specification: a target without pid filter, one
\* filtered on task 2 and one filtered on init, the adds that fail, an update,
\* removal.
HotLines ==
    { <<"+", "/", "a", ":", "f">>,
      <<"+", "/", "a", ":", "g", " ", "2", " ", "p", "i", "d", "=", "2">>,
      <<"+", "/", "b", ":", "f", " ", "p", "i", "d", "=", "1">>,
      <<"+", "/", "b", ":", "g">>,
      <<"+", "/", "a", ":", "f", " ", "9">>,
      <<"=", "/", "a", ":", "f", " ", "2">>,
      <<"-", "/", "a", ":", "f">>,
      <<"-", "*">> }

HotEnabledBufs == { <<"0">>, <<"1">> }

Control(lines, ebufs) ==
    \/ \E buf \in lines : targets_store(buf)
    \/ \E alloc_ok \in BOOLEAN, reg_err \in RegisterErrs : add_target_locked(alloc_ok, reg_err)
    \/ update_target_locked
    \/ remove_target_finish
    \/ \E buf \in ebufs : enabled_store(buf)
    \/ speed_bump_exit_disable
    \/ speed_bump_exit_lock
    \/ speed_bump_exit_free
    \/ speed_bump_exit_sysfs

\* The control path under every command; no probe fires.
Next ==
    \/ Control(TargetLines, EnabledBufs)
    \/ \E buf \in DefaultDelayBufs : default_delay_ns_store(buf)
    \/ \E file \in SysfsFiles : sysfs_show(file)

Spec == Init /\ [][Next]_vars

\* The hot path on every CPU and in every task, under a few commands.
NextHot ==
    \/ Control(HotLines, HotEnabledBufs)
    \/ sysfs_show("stats")
    \/ \E cpu \in CPUs, key \in uprobes, task \in Tasks : handler_enter(cpu, key, task)
    \/ \E cpu \in CPUs : handler_stats(cpu)

SpecHot == Init /\ [][NextHot]_vars

\* Writes to the targets file at the limits of the line and of its fields:
\* no command, a line of SPEED_BUMP_MAX_LINE_LEN bytes and one byte more,
\* names that are empty, malformed or too long, and commands that run into
\* each error of add, update and remove.
StoreLines ==
    { <<>>,
      <<"?", "/", "a", ":", "f">>,
      <<" ", "+", "/", "a", ":", "f">>,
      <<"+", "/", "a", ":", "f">>,
      <<"+", "/", "a", ":", "f", " ", "0", "0", "3", " ", "p", "i", "d", "=", "2">>,
      <<"+", "/", "a", ":", "f", " ", "0", "0", "0", "3", " ", "p", "i", "d", "=", "2">>,
      <<"+", "/", "b", ":", "g", "\n">>,
      <<"+", "/", "b", ":", "f">>,
      <<"+", "/", "d", ":", "f">>,
      <<"+", "/", "a", ":", "f", " ", "9">>,
      <<"+", "/", "a", "f">>,
      <<"+", ":", "f">>,
      <<"+", "/", "a", ":">>,
      <<"+", "/", "a", ":", " ", "2">>,
      <<"+", "/", "a", ":", "2">>,
      <<"+", "/", "a", ":", "_">>,
      <<"+", "a", ":", "f">>,
      <<"+", "/", "a", "b", ":", "f", "g">>,
      <<"+", "/", "a", "b", "c", ":", "f">>,
      <<"+", "/", "a", ":", "f", "g", "h">>,
      <<"=", "/", "a", ":", "f", " ", "2">>,
      <<"=", "/", "d", ":", "f", " ", "2">>,
      <<"=", ":", "f">>,
      <<"=", "/", "a", "b", "c", ":", "f">>,
      <<"-", "/", "a", ":", "f">>,
      <<"-", "/", "b", ":", "g", "\n">>,
      <<"-", "a", "f">>,
      <<"-", "*">> }

\* The control path under the writes of StoreLines.
NextStore == Control(StoreLines, HotEnabledBufs)

SpecStore == Init /\ [][NextStore]_vars

(***************************************************************************)
(* Properties                                                              *)
(***************************************************************************)
\* The step in which add_target, holding the mutex, decides and returns.
AddReturns == ctl.pc = "parsed" /\ ctl.kind = "add" /\ ctl'.pc = "idle"

\* A write of an add command that returns before add_target takes the mutex;
\* it is a step of the writer, not of a handler.
AddFailsInParse ==
    /\ ctl.pc = "idle"
    /\ ctl'.pc = "idle"
    /\ UNCHANGED <<handlers, ntrig>>
    /\ \E buf \in TargetLines \cup HotLines :
           Len(buf) > 0 /\ buf[1] = "+" /\ targets_store(buf)

\* The step in which one free_target completes (remove, remove-all, shutdown).
FreeStep ==
    \/ ctl.pc = "sync" /\ ctl' # ctl
    \/ exitctx.pc = "freeing" /\ exitctx' # exitctx

\* Some handler invocation for the consumer of key has not returned.
InFlight(key) == \E c \in CPUs : handlers[c].pc # "idle" /\ handlers[c].target = key

Quiescent == \A c \in CPUs : handlers[c].pc = "idle"

\* ---- C1 ----
C1_UniqueKeys ==
    \A i, j \in 1..Len(speed_bump_targets) :
        i # j => KeyOf(speed_bump_targets[i]) # KeyOf(speed_bump_targets[j])

C1_DuplicateAdd ==
    [][(AddReturns /\ KeyOf(ctl.req) \in Keys) => ctl'.ret = "EEXIST"]_vars

\* C1: in every reachable state no two targets of the registry have the same
\* (path, symbol); and an add whose (path, symbol) is registered when add_target
\* looks it up returns EEXIST, for every delay and pid the parsed command
\* carries and at every fill level, the full registry included.
C1_NoDuplicateKeys == []C1_UniqueKeys /\ C1_DuplicateAdd

\* C1 witness: a duplicate add was refused while the registry was full.
C1_Witness ==
    /\ ctl.ret = "EEXIST"
    /\ Len(speed_bump_targets) = SPEED_BUMP_MAX_TARGETS

\* ---- C2 ----
C2_Bounded == Len(speed_bump_targets) <= SPEED_BUMP_MAX_TARGETS

C2_FullAdd ==
    [][(/\ AddReturns
        /\ KeyOf(ctl.req) \notin Keys
        /\ Len(speed_bump_targets) = SPEED_BUMP_MAX_TARGETS)
       => (ctl'.ret = "ENOSPC" /\ speed_bump_targets' = speed_bump_targets)]_vars

\* C2: the registry never holds more than SPEED_BUMP_MAX_TARGETS targets; an
\* add of a new key that finds the registry holding exactly the maximum
\* returns ENOSPC and inserts nothing.
C2_Capacity == []C2_Bounded /\ C2_FullAdd

\* C2 witness: an add was refused for capacity and the registry is still full.
C2_Witness ==
    /\ ctl.ret = "ENOSPC"
    /\ Len(speed_bump_targets) = SPEED_BUMP_MAX_TARGETS
    /\ speed_bump_target_count = SPEED_BUMP_MAX_TARGETS

\* ---- C3 ----
C3_CountIsLength == speed_bump_target_count = Len(speed_bump_targets)

C3_Steps ==
    [][LET d == Len(speed_bump_targets') - Len(speed_bump_targets)
           added == AddReturns /\ ctl'.ret = "OK"
       IN  /\ speed_bump_target_count' - speed_bump_target_count = d
           /\ added => d = 1
           /\ FreeStep => d = -1
           /\ (~added /\ ~FreeStep) => d = 0]_vars

\* C3: speed_bump_target_count equals the length of the target list in every
\* state; a successful add raises both by one, each completed free_target of a
\* remove, remove-all or shutdown lowers both by one, and every other step,
\* failing operations included, changes neither.
C3_CountMatchesList == []C3_CountIsLength /\ C3_Steps

\* C3 witness: remove-all has freed one of two targets and is about to free
\* the other.
C3_Witness ==
    /\ ctl.pc = "sync"
    /\ ctl.kind = "remove_all"
    /\ speed_bump_target_count = 1
    /\ Len(speed_bump_targets) = 1

\* ---- C4 ----
\* C4: an add that fails, in the parse or under the mutex (duplicate, capacity,
\* allocation failure, unresolvable symbol, failed uprobe_register), leaves the
\* target list with every target's delay, pid filter and counters, the target
\* count and the default delay as they were.
\* (Stated contrapositively: a step that changes any of them is no failing add.)
C4_FailedAddChangesNothing ==
    [][~UNCHANGED <<speed_bump_targets, speed_bump_target_count,
                    speed_bump_default_delay>>
       => ~(AddFailsInParse \/ (AddReturns /\ ctl'.ret # "OK"))]_vars

\* C4 witness: an add was rejected while the registry held a target that had
\* already counted a hit.
C4_Witness ==
    /\ ctl.ret = "ERANGE"
    /\ Len(speed_bump_targets) = SPEED_BUMP_MAX_TARGETS
    /\ \E i \in 1..Len(speed_bump_targets) : speed_bump_targets[i].hit_count > 0

\* ---- C5 ----
\* C5: every target in the list has registered = TRUE and a non-zero offset,
\* and whenever the mutex is free, so that a list or lookup can run, its
\* uprobe consumer is attached; a target whose registration failed is never in
\* the list.
C5_ListedTargetsAttached ==
    \A i \in 1..Len(speed_bump_targets) :
        /\ speed_bump_targets[i].registered
        /\ speed_bump_targets[i].offset # 0
        /\ speed_bump_mutex = "free" => KeyOf(speed_bump_targets[i]) \in uprobes

\* C5 witness: uprobe_register failed for an add while another target is listed.
C5_Witness ==
    /\ ctl.ret = "EIO"
    /\ Len(speed_bump_targets) = 1
    /\ speed_bump_mutex = "free"

\* ---- C6 ----
\* C6: a handler invocation that has not returned always has its target
\* allocated and in the list, and an attached consumer always belongs to
\* an allocated target: free_target releases a target only after the
\* unregistration has waited for every invocation running for it.
C6_NoUseAfterFree ==
    /\ \A c \in CPUs : handlers[c].pc # "idle" => IsAllocated(handlers[c].target)
    /\ \A key \in uprobes : IsAllocated(key)

\* C6 witness: a remove has detached the consumer and waits for a handler
\* invocation that is still spinning for that target.
C6_Witness ==
    /\ ctl.pc = "sync"
    /\ ctl.cur \notin uprobes
    /\ InFlight(ctl.cur)

\* ---- C7 ----
\* The parts of the registry that only the control path writes.
ListConfig ==
    [i \in 1..Len(speed_bump_targets) |->
        <<speed_bump_targets[i].path, speed_bump_targets[i].symbol,
          speed_bump_targets[i].delay_ns, speed_bump_targets[i].pid_filter>>]

\* The steps that run between mutex_lock and mutex_unlock of speed_bump_mutex.
LockedStep ==
    \/ \E alloc_ok \in BOOLEAN, reg_err \in RegisterErrs : add_target_locked(alloc_ok, reg_err)
    \/ update_target_locked
    \/ remove_target_finish
    \/ speed_bump_exit_lock
    \/ speed_bump_exit_free
    \/ /\ ctl.pc = "idle"
       /\ \E buf \in TargetLines \cup HotLines :
              Len(buf) > 0 /\ buf[1] = "-" /\ targets_store(buf)

C7_WritesLocked ==
    [][(\/ ListConfig' # ListConfig
        \/ speed_bump_target_count' # speed_bump_target_count
        \/ speed_bump_default_delay' # speed_bump_default_delay) => LockedStep]_vars

\* A step of the operation that holds the mutex.
HolderStep ==
    \/ speed_bump_mutex = "ctl" /\ ctl' # ctl
    \/ speed_bump_mutex = "exit" /\ exitctx' # exitctx

C7_Exclusive ==
    [][(speed_bump_mutex # "free" /\ ~HolderStep)
       => (/\ ListConfig' = ListConfig
           /\ speed_bump_target_count' = speed_bump_target_count
           /\ speed_bump_default_delay' = speed_bump_default_delay)]_vars

\* C7: every step that changes the target list, the target count or the
\* default delay is taken inside a critical section of speed_bump_mutex, and
\* while one operation is inside its critical section no other operation
\* changes any of the three.
C7_RegistryAccessLocked == C7_WritesLocked /\ C7_Exclusive

\* ---- C8 ----
\* A probe fires: the handler is entered.
Trigger == ntrig' = ntrig + 1

\* C8: a probe trigger whose handler reads speed_bump_enabled = 0 starts no
\* delay and leaves every target's hit_count and total_delay_ns and the
\* aggregate counters unchanged, whatever the target and the calling task.
C8_DisabledTriggerDoesNothing ==
    [][(Trigger /\ speed_bump_enabled = 0)
       => UNCHANGED <<handlers, spun, speed_bump_targets, speed_bump_total_hits,
                      speed_bump_total_delay, percpu>>]_vars

\* C8 witness: probes have fired on targets without pid filter while disabled
\* and no invocation has ever gone on to delay.
C8_Witness ==
    /\ speed_bump_enabled = 0
    /\ ntrig >= 2
    /\ spun.total.hits = 0
    /\ speed_bump_total_hits = 0
    /\ uprobes # {}
    /\ \A i \in 1..Len(speed_bump_targets) : speed_bump_targets[i].pid_filter = 0

\* ---- C9 ----
C9_Exact ==
    \A i \in 1..Len(speed_bump_targets) :
        LET key == KeyOf(speed_bump_targets[i])
        IN  ~InFlight(key) => speed_bump_targets[i].hit_count = spun.keys[key].hits

C9_Monotone ==
    [][\A i \in 1..Len(speed_bump_targets), j \in 1..Len(speed_bump_targets') :
           KeyOf(speed_bump_targets[i]) = KeyOf(speed_bump_targets'[j])
           => speed_bump_targets'[j].hit_count >= speed_bump_targets[i].hit_count]_vars

\* C9: the hit_count of a live target never decreases, and whenever no handler
\* invocation for the target is running it equals the number of invocations on
\* that target that passed the enabled and pid-filter tests, under every
\* interleaving of invocations on the CPUs.
C9_HitCountExact == []C9_Exact /\ C9_Monotone

\* C9 witness: invocations that overlapped on two CPUs have all returned and
\* the target counts each of them.
C9_Witness ==
    /\ Quiescent
    /\ \E i \in 1..Len(speed_bump_targets) :
           /\ speed_bump_targets[i].hit_count = MaxTriggers
           /\ spun.keys[KeyOf(speed_bump_targets[i])].hits = MaxTriggers

\* ---- C10 ----
\* C10: once every handler invocation has returned, the total_hits and
\* total_delay_ns that stats_show prints equal the number of hits the handler
\* delayed since load and the sum of their delays.
C10_StatsTotalsMatchHandler ==
    Quiescent => /\ stats_show.total_hits = spun.total.hits
                 /\ stats_show.total_delay_ns = spun.total.delay

\* ---- C11 ----
\* C11: whenever no handler invocation for a live target is running, the
\* target's total_delay_ns equals the sum of the delays that were spun for its
\* hits, also when an update changed delay_ns during an invocation.
C11_TotalDelayIsSpunDelay ==
    \A i \in 1..Len(speed_bump_targets) :
        LET key == KeyOf(speed_bump_targets[i])
        IN  ~InFlight(key)
            => speed_bump_targets[i].total_delay_ns = spun.keys[key].delay

\* ---- C12 ----
\* Target specs by their parts: the delay and pid fields as written (<<>> when
\* the field is absent) and the numbers they denote.
TargetSpecs ==
    { [path |-> P_a, symbol |-> S_f, delay |-> <<>>, dval |-> 0, pid |-> <<>>, pval |-> 0],
      [path |-> P_a, symbol |-> S_f, delay |-> <<"2">>, dval |-> 2, pid |-> <<>>, pval |-> 0],
      [path |-> P_a, symbol |-> S_f, delay |-> <<"4">>, dval |-> 4, pid |-> <<>>, pval |-> 0],
      [path |-> P_a, symbol |-> S_g, delay |-> <<>>, dval |-> 0, pid |-> <<"2">>, pval |-> 2],
      [path |-> P_b, symbol |-> S_f, delay |-> <<"3">>, dval |-> 3, pid |-> <<"2">>, pval |-> 2],
      [path |-> P_b, symbol |-> S_f, delay |-> <<"2">>, dval |-> 2, pid |-> <<"0">>, pval |-> 0],
      [path |-> P_a, symbol |-> S_f, delay |-> <<"0", "0", "3">>, dval |-> 3,
       pid |-> <<"2">>, pval |-> 2] }

\* The text "PATH:SYMBOL[ DELAY][ pid=PID]" of a target spec.
SpecText(c) ==
    c.path \o <<":">> \o c.symbol
    \o (IF c.delay = <<>> THEN <<>> ELSE <<" ">> \o c.delay)
    \o (IF c.pid = <<>> THEN <<>> ELSE <<" ", "p", "i", "d", "=">> \o c.pid)

\* The delay a command carrying spec c is to store when the default is dflt.
EffectiveDelay(c, dflt) == IF c.delay = <<>> THEN dflt ELSE c.dval

\* The write of command op \o SpecText(c) is parsed and goes on to the mutex.
ParsedStep(op, c) ==
    /\ ctl.pc = "idle"
    /\ ctl'.pc = "parsed"
    /\ targets_store(<<op>> \o SpecText(c))

C12_Parsed ==
    [][\A c \in TargetSpecs :
           ParsedStep("+", c)
           => /\ ctl'.req.path = c.path
              /\ ctl'.req.symbol = c.symbol
              /\ ctl'.req.delay_ns = EffectiveDelay(c, speed_bump_default_delay)
              /\ ctl'.req.pid_filter = c.pval]_vars

C12_Listed ==
    [][(AddReturns /\ ctl'.ret = "OK")
       => LET n == Len(speed_bump_targets')
              shown == targets_list_show'
          IN  /\ n = Len(speed_bump_targets) + 1
              /\ shown[n] = [path |-> ctl.req.path, symbol |-> ctl.req.symbol,
                             delay_ns |-> ctl.req.delay_ns, hits |-> 0,
                             pid |-> ctl.req.pid_filter,
                             has_pid |-> ctl.req.pid_filter # 0]]_vars

\* C12: after a successful add, targets_list shows for the target the path and
\* symbol of the command, the explicit delay when the command had one and
\* otherwise the default delay read by the add, hits = 0, and a pid= field
\* exactly when the command gave a non-zero pid.
C12_AddThenList == C12_Parsed /\ C12_Listed

\* ---- C13 ----
C13_WriteFrame ==
    [][speed_bump_default_delay' # speed_bump_default_delay
       => UNCHANGED <<speed_bump_targets, speed_bump_target_count, ctl>>]_vars

C13_OmittedDelay ==
    [][\A c \in TargetSpecs, op \in {"+", "="} :
           (c.delay = <<>> /\ ParsedStep(op, c))
           => ctl'.req.delay_ns = speed_bump_default_delay]_vars

\* The step in which a parsed add or update stores its request and returns.
StoredStep == ctl.pc = "parsed" /\ ctl'.pc = "idle" /\ ctl'.ret = "OK"

C13_Stored ==
    [][StoredStep
       => \E i \in 1..Len(speed_bump_targets') :
              /\ KeyOf(speed_bump_targets'[i]) = KeyOf(ctl.req)
              /\ speed_bump_targets'[i].delay_ns = ctl.req.delay_ns]_vars

\* C13: a write to default_delay_ns changes no registered target (nor a
\* command already parsed); an add or update that omits the delay takes the
\* default delay as it is when the command is parsed, and stores it.
C13_DefaultNotRetroactive == C13_WriteFrame /\ C13_OmittedDelay /\ C13_Stored

\* C13 witness: the default was raised to 3 after /a:f was added with the
\* initial default, and /a:g, added later without a delay, took the new one.
C13_Witness ==
    /\ speed_bump_default_delay = 3
    /\ Len(speed_bump_targets) = 2
    /\ KeyOf(speed_bump_targets[1]) = <<P_a, S_f>>
    /\ speed_bump_targets[1].delay_ns = SPEED_BUMP_DEFAULT_DELAY_NS
    /\ KeyOf(speed_bump_targets[2]) = <<P_a, S_g>>
    /\ speed_bump_targets[2].delay_ns = 3
    /\ speed_bump_targets[2].pid_filter = 2

\* ---- C14 ----
\* The keys named by the remove commands.
RemoveKeys == {<<P_a, S_f>>, <<P_a, S_g>>, <<P_b, S_f>>, <<P_d, S_f>>}

\* The write of "-PATH:SYMBOL" for key, a step of the writer.
RemoveWrite(key) ==
    /\ ctl.pc = "idle"
    /\ UNCHANGED <<handlers, ntrig>>
    /\ targets_store(<<"-">> \o key[1] \o <<":">> \o key[2])

C14_Detach ==
    [][\A key \in RemoveKeys :
           RemoveWrite(key)
           => IF key \in Keys
              THEN /\ ctl'.pc = "sync"
                   /\ ctl'.cur = key
                   /\ uprobes' = uprobes \ {key}
                   /\ UNCHANGED <<speed_bump_targets, speed_bump_target_count>>
              ELSE /\ ctl' = Idle("ENOENT")
                   /\ UNCHANGED <<speed_bump_targets, speed_bump_target_count, uprobes,
                                  i_count, speed_bump_default_delay, speed_bump_enabled,
                                  speed_bump_total_hits, speed_bump_total_delay,
                                  speed_bump_mutex>>]_vars

C14_Delete ==
    [][(ctl.pc = "sync" /\ ctl.kind = "remove" /\ ctl' # ctl)
       => LET Other(t) == KeyOf(t) # ctl.cur
          IN  /\ ctl' = Idle("OK")
              /\ speed_bump_targets' = SelectSeq(speed_bump_targets, Other)
              /\ Len(speed_bump_targets') = Len(speed_bump_targets) - 1
              /\ speed_bump_target_count' = speed_bump_target_count - 1
              /\ uprobes' = uprobes
              /\ ctl.cur \notin uprobes]_vars

\* C14: a remove naming a registered key first detaches that target's probe,
\* leaving the list as it is, and then deletes the target: the key is gone,
\* the count is one lower, and the other targets keep their fields, their
\* attachment and their order.  A remove naming a key that is not registered
\* returns ENOENT and changes nothing.
C14_RemoveOne == C14_Detach /\ C14_Delete

\* C14 witness: the second of two targets is being removed, its probe already
\* detached, while the first has counted a hit and stays attached.
C14_Witness ==
    /\ ctl.pc = "sync"
    /\ ctl.kind = "remove"
    /\ Len(speed_bump_targets) = 2
    /\ KeyOf(speed_bump_targets[2]) = ctl.cur
    /\ ctl.cur \notin uprobes
    /\ KeyOf(speed_bump_targets[1]) \in uprobes
    /\ speed_bump_targets[1].hit_count > 0

\* ---- C15 ----
\* The write of "-*", a step of the writer.
RemoveAllWrite ==
    /\ ctl.pc = "idle"
    /\ UNCHANGED <<handlers, ntrig>>
    /\ targets_store(<<"-", "*">>)

C15_Start ==
    [][RemoveAllWrite
       => IF speed_bump_targets = <<>>
          THEN /\ ctl' = Idle("OK")
               /\ UNCHANGED <<speed_bump_targets, speed_bump_target_count, uprobes, i_count,
                              speed_bump_default_delay, speed_bump_enabled,
                              speed_bump_total_hits, speed_bump_total_delay, percpu,
                              speed_bump_mutex, exitctx, spun>>
          ELSE /\ ctl'.pc = "sync"
               /\ ctl'.kind = "remove_all"]_vars

C15_Loop ==
    [][(ctl.kind = "remove_all" /\ ctl' # ctl)
       => /\ Len(speed_bump_targets') = Len(speed_bump_targets) - 1
          /\ UNCHANGED <<speed_bump_default_delay, speed_bump_enabled,
                         speed_bump_total_hits, speed_bump_total_delay>>
          /\ ctl'.pc = "idle"
             => /\ ctl'.ret = "OK"
                /\ speed_bump_targets' = <<>>
                /\ speed_bump_target_count' = 0
                /\ uprobes' = {}]_vars

\* C15: remove-all never fails.  On a registry that is not empty it frees one
\* target per step and returns OK with the list empty, the count 0 and no probe
\* attached; on an empty registry it returns OK and changes nothing, the
\* enabled flag, the default delay and the counters included.
C15_RemoveAll == C15_Start /\ C15_Loop

\* C15 witness: remove-all has started on a full registry, the probe of the
\* first target is detached and that of the last still attached.
C15_Witness ==
    /\ ctl.pc = "sync"
    /\ ctl.kind = "remove_all"
    /\ Len(speed_bump_targets) = SPEED_BUMP_MAX_TARGETS
    /\ ctl.cur = KeyOf(speed_bump_targets[1])
    /\ ctl.cur \notin uprobes
    /\ KeyOf(speed_bump_targets[SPEED_BUMP_MAX_TARGETS]) \in uprobes

\* ---- C16 ----
\* The step in which update_target, holding the mutex, decides and returns.
UpdateReturns == ctl.pc = "parsed" /\ ctl.kind = "update" /\ ctl'.pc = "idle"

\* C16: an update naming a registered key returns OK and changes, of the whole
\* registry, only that target's delay_ns and, when the request carries a pid
\* filter, its pid_filter: its offset, attachment, hit_count, total_delay_ns and
\* position, the other targets and the count stay as they were.  An update
\* naming a key that is not registered returns ENOENT and changes nothing.
C16_UpdateFrame ==
    [][UpdateReturns
       => /\ UNCHANGED <<speed_bump_target_count, uprobes, i_count,
                         speed_bump_default_delay, speed_bump_enabled, speed_bump_mutex>>
          /\ IF KeyOf(ctl.req) \in Keys
             THEN /\ ctl'.ret = "OK"
                  /\ Len(speed_bump_targets') = Len(speed_bump_targets)
                  /\ \A i \in 1..Len(speed_bump_targets) :
                         LET t == speed_bump_targets[i]
                         IN  speed_bump_targets'[i] =
                                 IF KeyOf(t) = KeyOf(ctl.req)
                                 THEN [t EXCEPT
                                         !.delay_ns = ctl.req.delay_ns,
                                         !.pid_filter = IF ctl.req.pid_filter # 0
                                                        THEN ctl.req.pid_filter ELSE @]
                                 ELSE t
             ELSE /\ ctl'.ret = "ENOENT"
                  /\ UNCHANGED speed_bump_targets]_vars

\* C16 witness: /a:g, listed with another target, was updated to delay 3 and
\* pid filter 4.
C16_Witness ==
    /\ Len(speed_bump_targets) = 2
    /\ ctl.ret = "OK"
    /\ \E i \in 1..2 :
           /\ KeyOf(speed_bump_targets[i]) = <<P_a, S_g>>
           /\ speed_bump_targets[i].delay_ns = 3
           /\ speed_bump_targets[i].pid_filter = 4
           /\ speed_bump_targets[i].registered

\* ---- C17 ----
\* The keys of the list, head first, and the keys of the lines targets_list
\* prints, first line first.
KeySeq == [i \in 1..Len(speed_bump_targets) |-> KeyOf(speed_bump_targets[i])]

ShownKeys ==
    [i \in 1..Len(targets_list_show) |->
        <<targets_list_show[i].path, targets_list_show[i].symbol>>]

\* s without its i-th element.
Dropped(s, i) == [j \in 1..(Len(s) - 1) |-> IF j < i THEN s[j] ELSE s[j + 1]]

C17_Steps ==
    [][\/ KeySeq' = KeySeq
       \/ /\ AddReturns
          /\ ctl'.ret = "OK"
          /\ KeySeq' = KeySeq \o <<KeyOf(ctl.req)>>
       \/ /\ FreeStep
          /\ \E i \in 1..Len(KeySeq) : KeySeq' = Dropped(KeySeq, i)]_vars

RECURSIVE Ancestors(_)
Ancestors(t) == IF t = 1 THEN {} ELSE {real_parent(t)} \cup Ancestors(real_parent(t))

\* Task p is task f or a descendant of it.
InProcessTree(p, f) == p = f \/ f \in Ancestors(p)

\* C18: a probe fired by task p while enabled is 1, on a target with pid filter
\* f, goes on to the delay and the counters exactly when f is 0 or p is f or a
\* descendant of f.
C18_PidFilterIsProcessTree ==
    [][Trigger
       => \A cpu \in CPUs, key \in uprobes, p \in Tasks :
              (speed_bump_enabled = 1 /\ handler_enter(cpu, key, p))
              => LET f == TargetAt(key).pid_filter
                 IN  handlers'[cpu].pc = "spin" <=> (f = 0 \/ InProcessTree(p, f))]_vars

\* ---- C19 ----
\* C19: parse_target_spec maps "PATH:SYMBOL" to the default delay and no pid
\* filter, "PATH:SYMBOL D" to delay D and no filter, "PATH:SYMBOL pid=P" to the
\* default delay and filter P, and "PATH:SYMBOL D pid=P" to delay D and filter
\* P, in an add and in an update alike.
C19_ParserForms ==
    [][\A op \in {"+", "="}, c \in TargetSpecs :
           ParsedStep(op, c)
           => ctl'.req = [ret |-> "OK", path |-> c.path, symbol |-> c.symbol,
                          delay_ns |-> EffectiveDelay(c, speed_bump_default_delay),
                          pid_filter |-> c.pval]]_vars

\* ---- C20 ----
\* Delay fields as written in a command: in range, the maximum, above it,
\* beyond 64 bits, not a number, and one that fills delay_buf.
DelayFields ==
    { <<"2">>, <<"4">>, <<"5">>, <<"9">>, <<"9", "9">>, <<"x">>,
      <<"0", "0", "3">>, <<"0", "0", "9">> }

\* The number a string of decimal digits denotes, without any width.
RECURSIVE DecimalValue(_, _)
DecimalValue(s, acc) ==
    IF s = <<>> THEN acc ELSE DecimalValue(Tail(s), 10 * acc + DigitVal(Head(s)))

\* The delay field d is a non-negative decimal integer not above the maximum.
DelayInRange(d) ==
    /\ d # <<>>
    /\ \A i \in 1..Len(d) : IsDigit(d[i])
    /\ DecimalValue(d, 0) <= SPEED_BUMP_MAX_DELAY_NS

\* The command op on /a:f with delay field d, and pid filter 2 when pid is set.
DelayCommand(op, d, pid) ==
    <<op>> \o P_a \o <<":">> \o S_f \o <<" ">> \o d
    \o (IF pid THEN <<" ", "p", "i", "d", "=", "2">> ELSE <<>>)

\* C20: an add or update whose delay field is not a non-negative decimal
\* integer, or is above the maximum, returns ERANGE and changes nothing; one
\* whose delay field is in range, the maximum included, is parsed with that
\* delay and goes on.
C20_DelayValidated ==
    [][ctl.pc = "idle"
       => \A op \in {"+", "="}, d \in DelayFields, pid \in BOOLEAN :
              targets_store(DelayCommand(op, d, pid))
              => IF DelayInRange(d)
                 THEN /\ ctl'.pc = "parsed"
                      /\ ctl'.req.delay_ns = DecimalValue(d, 0)
                 ELSE /\ ctl'.pc = "idle"
                      /\ ctl'.ret = "ERANGE"
                      /\ UNCHANGED <<speed_bump_targets, speed_bump_target_count,
                                     speed_bump_enabled, speed_bump_default_delay,
                                     uprobes, i_count>>]_vars

\* ---- C21 ----
\* Path and symbol fields as written in a command: well formed, empty, not
\* absolute, starting with a digit, and at the length limits.
PathFields == { P_a, <<>>, <<"a">>, <<"/", "a", "b">>, <<"/", "a", "b", "c">> }

SymbolFields == { S_f, <<"_">>, <<>>, <<"2">>, <<"f", "g">>, <<"f", "g", "h">> }

\* A name that reaches the size of the buffer it is copied to.
PathTooLong(p) == Len(p) >= SPEED_BUMP_MAX_PATH_LEN

SymbolTooLong(y) == Len(y) >= SPEED_BUMP_MAX_SYMBOL_LEN

\* A path that is not absolute, a symbol that does not start with a letter or
\* an underscore.
PathMalformed(p) == p = <<>> \/ p[1] # "/"

SymbolMalformed(y) == y = <<>> \/ (y[1] # "_" /\ ~isalpha(y[1]))

\* The step is a write of buf that fails with error e before the mutex.
ParseError(buf, e) == targets_store(buf) /\ ctl'.pc = "idle" /\ ctl'.ret = e

\* C21: a spec without ':' fails with EINVAL.  A spec "PATH:SYMBOL" whose only
\* fault is that PATH reaches SPEED_BUMP_MAX_PATH_LEN or SYMBOL reaches
\* SPEED_BUMP_MAX_SYMBOL_LEN fails with ENAMETOOLONG; one in which neither
\* reaches its limit never fails with ENAMETOOLONG, and fails with EINVAL when
\* PATH is not absolute or SYMBOL does not start with a letter or underscore.
C21_ParserErrorClasses ==
    [][ctl.pc = "idle"
       => \A op \in {"+", "="}, p \in PathFields, y \in SymbolFields :
              /\ targets_store(<<op>> \o p \o y) => ParseError(<<op>> \o p \o y, "EINVAL")
              /\ targets_store(<<op>> \o p \o <<":">> \o y)
                 => LET buf == <<op>> \o p \o <<":">> \o y
                        long == PathTooLong(p) \/ SymbolTooLong(y)
                        malformed == PathMalformed(p) \/ SymbolMalformed(y)
                    IN  /\ (long /\ ~malformed) => ParseError(buf, "ENAMETOOLONG")
                        /\ ~long => ~ParseError(buf, "ENAMETOOLONG")
                        /\ (~long /\ malformed) => ParseError(buf, "EINVAL")]_vars

\* ---- C22 ----
\* C22: in every reachable state the default delay and the delay of every
\* target in the registry are at most SPEED_BUMP_MAX_DELAY_NS.
C22_DelaysBounded ==
    /\ speed_bump_default_delay <= SPEED_BUMP_MAX_DELAY_NS
    /\ \A i \in 1..Len(speed_bump_targets) :
           speed_bump_targets[i].delay_ns <= SPEED_BUMP_MAX_DELAY_NS

\* The default delay was rewritten, one target holds an explicit delay equal
\* to the maximum and another took the default; the last write was rejected
\* for a delay above the maximum.
C22_Witness ==
    /\ speed_bump_default_delay = 3
    /\ Len(speed_bump_targets) = 2
    /\ speed_bump_targets[1].delay_ns = SPEED_BUMP_MAX_DELAY_NS
    /\ speed_bump_targets[2].delay_ns = speed_bump_default_delay
    /\ ctl.pc = "idle"
    /\ ctl.ret = "ERANGE"

\* ---- C23 ----
\* The number a sysfs write denotes: decimal digits with an optional final
\* newline; -1 when the text is no such number.
WrittenNumber(buf) ==
    LET n == IF buf # <<>> /\ buf[Len(buf)] = "\n" THEN Len(buf) - 1 ELSE Len(buf)
        text == SubSeq(buf, 1, n)
    IN  IF text # <<>> /\ \A i \in 1..n : IsDigit(text[i])
        THEN DecimalValue(text, 0) ELSE -1

C23_EnabledResult ==
    \A buf \in EnabledBufs :
        LET r == enabled_store_result(buf)
        IN  IF WrittenNumber(buf) \in {0, 1}
            THEN r.ret = "OK" /\ r.enabled = WrittenNumber(buf)
            ELSE r.ret # "OK" /\ r.enabled = speed_bump_enabled

C23_DefaultResult ==
    \A buf \in DefaultDelayBufs :
        WrittenNumber(buf) > SPEED_BUMP_MAX_DELAY_NS
        => LET r == default_delay_ns_store_result(buf)
           IN  r.ret = "ERANGE" /\ r.val = speed_bump_default_delay

\* What a write stores: the flag only ever takes a written 0 or 1 (exit writes
\* 0), the default only a written number that is no greater than the maximum.
C23_Stores ==
    [][/\ speed_bump_enabled' # speed_bump_enabled
          => /\ speed_bump_enabled' \in {0, 1}
             /\ \E buf \in EnabledBufs : WrittenNumber(buf) = speed_bump_enabled'
       /\ speed_bump_default_delay' # speed_bump_default_delay
          => /\ speed_bump_default_delay' <= SPEED_BUMP_MAX_DELAY_NS
             /\ \E buf \in DefaultDelayBufs :
                    WrittenNumber(buf) = speed_bump_default_delay']_vars

\* C23: a write to enabled returns success exactly for the values 0 and 1 and
\* then sets the flag to the value written, any other write returns an error
\* and leaves the flag as it was; a write to default_delay_ns of a value above
\* the maximum returns ERANGE and leaves the default as it was.
C23_StoresValidate == [](C23_EnabledResult /\ C23_DefaultResult) /\ C23_Stores

\* The flag was set by a write of 1 and the default by a write of 3; a write
\* of 2 to enabled and a write of 9 to default_delay_ns are refused here.
C23_Witness ==
    /\ speed_bump_enabled = 1
    /\ speed_bump_default_delay = 3
    /\ enabled_store_result(<<"2">>) = [ret |-> "EINVAL", enabled |-> 1]
    /\ default_delay_ns_store_result(<<"9">>) = [ret |-> "ERANGE", val |-> 3]

\* ---- C24 ----
\* The error codes a write to targets can return.
Errnos == {"EINVAL", "ENAMETOOLONG", "ERANGE", "EEXIST", "ENOSPC", "ENOMEM", "ENOENT", "EIO"}

\* A write no command is read from: empty, too long, or no command byte.
NoCommand(buf) ==
    buf = <<>> \/ Len(buf) > SPEED_BUMP_MAX_LINE_LEN \/ buf[1] \notin {"+", "-", "="}

C24_Rejected ==
    [][ctl.pc = "idle"
       => \A buf \in StoreLines :
              (NoCommand(buf) /\ targets_store(buf))
              => /\ ctl'.pc = "idle"
                 /\ ctl'.ret = "EINVAL"
                 /\ targets_store_return(ctl'.ret, Len(buf)) = "EINVAL"
                 /\ UNCHANGED <<speed_bump_targets, speed_bump_target_count,
                                uprobes, i_count>>]_vars

C24_FullLine ==
    [][ctl.pc = "idle"
       => \A buf \in StoreLines :
              (Len(buf) = SPEED_BUMP_MAX_LINE_LEN /\ buf[1] = "+" /\ targets_store(buf))
              => ctl'.pc = "parsed" /\ ctl'.count = SPEED_BUMP_MAX_LINE_LEN]_vars

\* The value returned by the step in which a write of count bytes ends.
C24_Returned(count) ==
    LET rv == targets_store_return(ctl'.ret, count)
    IN  IF ctl'.ret = "OK" THEN rv = count /\ count > 0
        ELSE rv = ctl'.ret /\ rv \in Errnos

\* A call that took the mutex ends; a write is refused or served in one step;
\* a write is parsed and goes on with its byte count.
C24_Returns ==
    [][/\ (ctl.pc # "idle" /\ ctl'.pc = "idle") => C24_Returned(ctl.count)
       /\ (ctl.pc = "idle" /\ ctl' # ctl)
          => IF ctl'.pc # "idle"
             THEN \E buf \in StoreLines : Len(buf) = ctl'.count /\ targets_store(buf)
             ELSE IF ctl'.ret # "OK"
             THEN \A n \in 0..(SPEED_BUMP_MAX_LINE_LEN + 1) : C24_Returned(n)
             ELSE \E buf \in StoreLines :
                      targets_store(buf) /\ C24_Returned(Len(buf))]_vars

\* C24: a write to targets that is empty, longer than SPEED_BUMP_MAX_LINE_LEN
\* or does not start with '+', '-' or '=' returns EINVAL and leaves the
\* registry as it was; an add of exactly SPEED_BUMP_MAX_LINE_LEN bytes is read
\* and parsed; a write that succeeds returns its byte count and one that fails
\* returns its error code.
C24_TargetsWrite == C24_Rejected /\ C24_FullLine /\ C24_Returns

\* An add of exactly SPEED_BUMP_MAX_LINE_LEN bytes has been parsed while a
\* target is in the registry.
C24_Witness ==
    /\ ctl.pc = "parsed"
    /\ ctl.kind = "add"
    /\ ctl.count = SPEED_BUMP_MAX_LINE_LEN
    /\ Len(speed_bump_targets) = 1

\* ---- C25 ----
C25_DisablesFirst ==
    [][(exitctx.pc = "loaded" /\ exitctx' # exitctx)
       => /\ exitctx'.pc = "disabled"
          /\ speed_bump_enabled' = 0
          /\ UNCHANGED <<speed_bump_targets, speed_bump_target_count, uprobes>>]_vars

C25_Completed ==
    exitctx.pc = "unloaded"
    => /\ speed_bump_targets = <<>>
       /\ speed_bump_target_count = 0
       /\ uprobes = {}

\* C25: speed_bump_exit writes 0 to enabled before it touches a target, and
\* when it has returned the list is empty, the count is 0 and no uprobe is
\* registered.
C25_ExitDestroysAll == C25_DisablesFirst /\ []C25_Completed

\* ---- C26 ----
\* The file starts with the header of an ELF64 image.
IsElf64(file) == file.ehdr_read /\ file.magic /\ file.class64

\* The file of the request is an ELF image that holds no such symbol.
SymbolUnresolved(req) ==
    LET file == FileSystem(req.path)
    IN  file.exists /\ IsElf64(file) /\ ~symbol_search(file, req.symbol).found

\* The path of the request cannot be opened, or its file is no ELF image.
FileUnusable(req) ==
    LET file == FileSystem(req.path)
    IN  ~file.exists \/ ~IsElf64(file)

\* An add that got as far as speed_bump_register_uprobe returns.
RegisterReturns ==
    /\ AddReturns
    /\ ~IsDuplicate(ctl.req.path, ctl.req.symbol)
    /\ ~AtCapacity
    /\ ctl'.ret # "ENOMEM"

\* C26: an add whose symbol cannot be resolved in the binary returns ENOENT,
\* and an add that fails in attaching (the path cannot be opened, the file is
\* no ELF image, or uprobe_register refuses) returns an error other than that.
C26_NotFoundDistinct ==
    [][RegisterReturns
       => /\ SymbolUnresolved(ctl.req) => ctl'.ret = "ENOENT"
          /\ FileUnusable(ctl.req) => ctl'.ret \notin {"OK", "ENOENT"}
          /\ (~SymbolUnresolved(ctl.req) /\ ~FileUnusable(ctl.req) /\ ctl'.ret # "OK")
             => ctl'.ret # "ENOENT"]_vars

\* ---- C27 ----
\* C27: an add whose key is in the registry, or that finds the registry full,
\* returns EEXIST or ENOSPC without having called kern_path, filp_open,
\* resolve_symbol_offset or uprobe_register, and holds no inode reference.
C27_ChecksBeforeResolution ==
    [][(AddReturns
        /\ (KeyOf(ctl.req) \in Keys \/ Len(speed_bump_targets) >= SPEED_BUMP_MAX_TARGETS))
       => /\ ctl'.ret \in {"EEXIST", "ENOSPC"}
          /\ ctl'.calls = {}
          /\ UNCHANGED <<i_count, uprobes, speed_bump_targets>>]_vars

\* The last add was refused by a full registry, and made no call.
C27_Witness ==
    /\ ctl.pc = "idle"
    /\ ctl.ret = "ENOSPC"
    /\ ctl.calls = {}
    /\ Len(speed_bump_targets) = SPEED_BUMP_MAX_TARGETS
    /\ \E i \in DOMAIN i_count : i_count[i] > 0


\* ---------------------------------------------------------------------------
\* Pattern matching (speed_bump_match.c)
\* ---------------------------------------------------------------------------

\* A null pointer: a value that is no C string (every character of a string
\* is one character long).
NULL == <<"NULL">>

\* strlen: the characters before the terminating NUL.
strlen(s) == Len(s)

\* The character at 1-based position i of a C string; past the characters
\* comes the terminating NUL.
CharAt(s, i) == IF i <= Len(s) THEN s[i] ELSE "NUL"

\* strncmp(a, b, n) = 0: the first n characters agree, or both strings end
\* at the same earlier position with all characters before it agreeing.
strncmp_equal(a, b, n) ==
    \A i \in 1..n :
        \/ CharAt(a, i) = CharAt(b, i)
        \/ \E j \in 1..(i - 1) : CharAt(a, j) = "NUL" /\ CharAt(b, j) = "NUL"

\* A faulty variant of the path comparison: in the prefix case the path must
\* be exactly as long as the prefix.
match_path_PrefixExactLength(pattern, path, path_pattern_len, is_prefix_match) ==
    IF is_prefix_match
    THEN LET prefix_len == path_pattern_len - 1 IN
         /\ strlen(path) = prefix_len
         /\ strncmp_equal(path, pattern, prefix_len)
    ELSE /\ strlen(path) = path_pattern_len
         /\ strncmp_equal(path, pattern, path_pattern_len)

\* A faulty variant of the path comparison: the lengths are not compared in
\* the exact case, so a path pattern matches every path that it is a prefix of.
match_path_NoLengthTest(pattern, path, path_pattern_len, is_prefix_match) ==
    IF is_prefix_match
    THEN LET prefix_len == path_pattern_len - 1 IN
         /\ ~(strlen(path) < prefix_len)
         /\ strncmp_equal(path, pattern, prefix_len)
    ELSE /\ ~(strlen(path) < path_pattern_len)
         /\ strncmp_equal(path, pattern, path_pattern_len)

\* The path comparison of speed_bump_match_target: up to the '*' in the
\* prefix case, of the whole path otherwise.
match_path(pattern, path, path_pattern_len, is_prefix_match) ==
    IF is_prefix_match
    THEN LET prefix_len == path_pattern_len - 1 IN
         /\ ~(strlen(path) < prefix_len)
         /\ strncmp_equal(path, pattern, prefix_len)
    ELSE /\ strlen(path) = path_pattern_len
         /\ strncmp_equal(path, pattern, path_pattern_len)

\* speed_bump_match_target: 1 if the "PATH:SYMBOL" pattern matches path and
\* symbol, 0 otherwise.  The pattern is split at its first ':'; the symbol is
\* compared first, then the path.
speed_bump_match_target(pattern, path, symbol) ==
    IF pattern = NULL \/ path = NULL \/ symbol = NULL THEN 0
    ELSE LET colon == strchr(pattern, ":", 1) IN
         IF colon = 0 THEN 0
         ELSE LET path_pattern_len   == colon - 1
                  symbol_pattern     == SubSeq(pattern, colon + 1, Len(pattern))
                  symbol_pattern_len == strlen(symbol_pattern)
                  is_prefix_match    == path_pattern_len > 0
                                        /\ pattern[path_pattern_len] = "*"
              IN  IF strlen(symbol) # symbol_pattern_len THEN 0
                  ELSE IF ~strncmp_equal(symbol, symbol_pattern, symbol_pattern_len) THEN 0
                  ELSE IF ~match_path(pattern, path, path_pattern_len, is_prefix_match)
                       THEN 0
                  ELSE 1

\* The paths and symbols a caller passes: null, empty, plain ones, a path
\* ending in '*', a path and a symbol that contain ':'.
MatchPaths ==
    {NULL, <<>>, <<"/","a">>, <<"/","a","b">>, <<"/","b">>, <<"/","a","*">>,
     <<"/","a",":","b">>}

MatchSymbols ==
    {NULL, <<>>, <<"f">>, <<"g">>, <<"f","g">>, <<"f",":","g">>, <<"*">>}

\* The patterns a caller passes: null, without separator, with an empty side,
\* with '*' at the end, in the middle and alone, with '*' as the symbol, and
\* every path joined to every symbol.
MatchPatterns ==
    {NULL, <<>>, <<"/","a","f">>, <<":">>, <<"*",":","f">>, <<"/","*",":","f">>,
     <<"/","a","*",":","f">>, <<"/","*","a",":","f">>, <<"/","a",":","f","*">>,
     <<"/","a",":","*">>, <<"/","a","*",":">>}
    \cup {p \o <<":">> \o y : p \in MatchPaths \ {NULL}, y \in MatchSymbols \ {NULL}}

\* A caller is about to call speed_bump_match_target.
InitMatch ==
    /\ InitModule
    /\ \E pattern \in MatchPatterns, path \in MatchPaths, symbol \in MatchSymbols :
           call = [fn |-> "speed_bump_match_target", pattern |-> pattern,
                   path |-> path, symbol |-> symbol, returned |-> FALSE, ret |-> 0]

\* The call returns; the function reads its arguments only.
match_target_call ==
    /\ call.fn = "speed_bump_match_target"
    /\ ~call.returned
    /\ call' = [call EXCEPT !.returned = TRUE,
                            !.ret = speed_bump_match_target(call.pattern, call.path,
                                                            call.symbol)]
    /\ UNCHANGED <<speed_bump_targets, speed_bump_target_count, speed_bump_enabled,
                   speed_bump_default_delay, speed_bump_total_hits,
                   speed_bump_total_delay, percpu, speed_bump_mutex, ctl, exitctx,
                   uprobes, i_count, handlers, ntrig, spun>>

NextMatch == match_target_call

SpecMatch == InitMatch /\ [][NextMatch]_vars

\* A call of speed_bump_match_target has returned.
MatchReturned ==
    /\ call.fn = "speed_bump_match_target"
    /\ call.returned

\* Claim C28 as stated: for every path and symbol, the pattern path ":" symbol
\* matches that path and symbol.
C28_SelfMatchEvery ==
    (/\ MatchReturned
     /\ call.path # NULL /\ call.symbol # NULL
     /\ call.pattern = call.path \o <<":">> \o call.symbol)
    => call.ret = 1

\* Claim C28, amended: for every path that contains no ':' and every symbol,
\* the pattern path ":" symbol matches that path and symbol.
C28_SelfMatch ==
    (/\ MatchReturned
     /\ call.path # NULL /\ call.symbol # NULL
     /\ strchr(call.path, ":", 1) = 0
     /\ call.pattern = call.path \o <<":">> \o call.symbol)
    => call.ret = 1

\* A path without ':' ending in '*' and a symbol with ':' matched their own
\* pattern.
C28_Witness ==
    /\ MatchReturned
    /\ call.path = <<"/","a","*">>
    /\ call.symbol = <<"f",":","g">>
    /\ call.pattern = call.path \o <<":">> \o call.symbol
    /\ call.ret = 1

\* a is a prefix of b.
IsPrefixOf(a, b) == Len(a) <= Len(b) /\ SubSeq(b, 1, Len(a)) = a

\* What a match is: no argument is null, the pattern has a ':', the text
\* after the first one is the symbol, and the text before it is the path, or
\* ends in '*' and is, without the '*', a prefix of the path.
MatchExpected(pattern, path, symbol) ==
    /\ pattern # NULL /\ path # NULL /\ symbol # NULL
    /\ \E k \in 1..Len(pattern) :
           /\ pattern[k] = ":"
           /\ \A j \in 1..(k - 1) : pattern[j] # ":"
           /\ SubSeq(pattern, k + 1, Len(pattern)) = symbol
           /\ LET path_pattern == SubSeq(pattern, 1, k - 1) IN
              IF path_pattern # <<>> /\ path_pattern[Len(path_pattern)] = "*"
              THEN IsPrefixOf(SubSeq(path_pattern, 1, Len(path_pattern) - 1), path)
              ELSE path_pattern = path

\* Claim C29: speed_bump_match_target returns 1 exactly when the pattern has
\* a ':' separator, the text after it equals the symbol, and the text before
\* it equals the path or ends in '*' and is, without the '*', a prefix of the
\* path; it returns 0 otherwise, so for a pattern without separator and for a
\* null argument.
C29_MatchExactly ==
    MatchReturned
    => call.ret = IF MatchExpected(call.pattern, call.path, call.symbol) THEN 1 ELSE 0

\* A prefix pattern matched a longer path.
C29_Witness ==
    /\ MatchReturned
    /\ call.pattern = <<"/","a","*",":","f">>
    /\ call.path = <<"/","a","b">>
    /\ call.symbol = <<"f">>
    /\ call.ret = 1

\* ---------------------------------------------------------------------------
\* Symbol resolution (speed_bump_uprobe.c)
\* ---------------------------------------------------------------------------

\* Program header entries: load and other segments, at file offset 0 or 2, at
\* address 0, 1 or just below the top of the address space, 0, 2 or 3 bytes long.
ElfPhdrs ==
    {Phdr(t, o, v, z) : t \in {PT_LOAD, "PT_NOTE"}, o \in {0, 2},
                        v \in {0, 1, U64_MAX - 1}, z \in {0, 2, 3}}

\* Program header tables of up to two entries.
ElfPhdrTables == {<<>>} \cup {<<a>> : a \in ElfPhdrs} \cup {<<a, b>> : a, b \in ElfPhdrs}

\* Symbol tables: without f, or with f at an address.
ElfSymtabs == {<<Sym(3, 1)>>} \cup {<<Sym(1, v)>> : v \in {0, 1, 2, U64_MAX}}

\* Files that differ in their program header tables: a file that is no ELF64
\* image, and the images with these symbol tables and program header tables,
\* whose table is or is not read.
ElfSegmentFiles ==
    {NotElf}
    \cup {[Elf64(<<SymSec(SHT_SYMTAB, 0, y)>>, t) EXCEPT !.phdrs_read = r] :
              y \in ElfSymtabs, t \in ElfPhdrTables, r \in BOOLEAN}

\* String tables: "\0f\0g\0", one that ends in the middle of the name f, and
\* one that cannot be read.
LayoutStrSecs ==
    {StrSec(Names), StrSec(<<"NUL", "f">>), [StrSec(Names) EXCEPT !.read = FALSE]}

\* Entries of a symbol table: f alone; g, then f twice; a name offset outside
\* the string table, then g.
LayoutSyms ==
    {<<Sym(1, 1)>>, <<Sym(3, 1), Sym(1, 2), Sym(1, 3)>>, <<Sym(7, 1), Sym(3, 3)>>}

\* Sections 2 and 3: a symbol table or dynamic symbol table, linked to
\* section 0, to section 1 or to no section, readable or not; or a section of
\* another type.
LayoutSecs ==
    {Section(t, l, r, <<>>, y) : t \in {SHT_SYMTAB, SHT_DYNSYM}, l \in {0, 1, 4},
                                r \in BOOLEAN, y \in LayoutSyms}
    \cup {StrSec(<<"NUL">>)}

\* The one load segment of the files below: address v is at file offset v + 2.
LayoutPhdrs == <<Phdr(PT_LOAD, 2, 0, 4)>>

\* What follows a string table's buffer in memory: a NUL, another byte, or
\* an unmapped page.
AfterBuffer == {<<"NUL">>, <<"x">>, <<>>}

\* Files that differ in their sections: section 0 is the section-header
\* string table, which holds the names f and g as well, section 1 a string
\* table, sections 2 and 3 as above.
ElfLayoutFiles ==
    {File(TRUE, TRUE, TRUE, TRUE, 0, <<StrSec(Names), str, x, y>>, TRUE, LayoutPhdrs, a) :
         str \in LayoutStrSecs, x \in LayoutSecs, y \in LayoutSecs, a \in AfterBuffer}

\* Files whose header or tables cannot be used: a short read of the ELF
\* header, no ELF magic, not ELFCLASS64, a short read of the section header
\* table, e_shstrndx outside the table, a short read of the section-header
\* string table.  Their sections hold the symbol f.
ElfBrokenFiles ==
    LET shdrs == <<StrSec(<<"NUL">>), StrSec(Names), SymSec(SHT_SYMTAB, 1, <<Sym(1, 1)>>)>>
        unread == [StrSec(<<"NUL">>) EXCEPT !.read = FALSE]
    IN  {File(h, m, c, s, x, shs, TRUE, LayoutPhdrs, <<"NUL">>) :
             h \in BOOLEAN, m \in BOOLEAN, c \in BOOLEAN, s \in BOOLEAN, x \in {0, 3},
             shs \in {shdrs, [shdrs EXCEPT ![1] = unread], <<>>}}

\* The opened files.
ElfFiles == ElfSegmentFiles \cup ElfLayoutFiles \cup ElfBrokenFiles

\* speed_bump_register_uprobe is about to resolve the symbol f in an opened file.
InitElf ==
    /\ InitModule
    /\ \E file \in ElfFiles :
           call = [fn |-> "resolve_symbol_offset", file |-> file, symbol_name |-> S_f,
                   returned |-> FALSE, aborted |-> FALSE, ret |-> 0, reads |-> {}]

\* The call returns, or a read of it faults and it never does; the function
\* reads the file only.  reads are the reads of its buffers.
resolve_symbol_offset_call ==
    /\ call.fn = "resolve_symbol_offset"
    /\ ~call.returned /\ ~call.aborted
    /\ LET search == symbol_search(call.file, call.symbol_name)
       IN  call' = [call EXCEPT
                       !.returned = ~search.fault,
                       !.aborted = search.fault,
                       !.ret = IF search.fault THEN 0
                               ELSE resolve_symbol_offset(call.file, call.symbol_name),
                       !.reads = search.reads]
    /\ UNCHANGED <<speed_bump_targets, speed_bump_target_count, speed_bump_enabled,
                   speed_bump_default_delay, speed_bump_total_hits,
                   speed_bump_total_delay, percpu, speed_bump_mutex, ctl, exitctx,
                   uprobes, i_count, handlers, ntrig, spun>>

NextElf == resolve_symbol_offset_call

SpecElf == InitElf /\ [][NextElf]_vars

\* The resolver returned after it found the symbol in a symbol table and read
\* the program header table, if there is one.
ResolverFound ==
    /\ call.fn = "resolve_symbol_offset"
    /\ call.returned
    /\ call.file.phdrs_read
    /\ symbol_search(call.file, call.symbol_name).found

\* The virtual address the symbol was found at.
FoundVaddr == symbol_search(call.file, call.symbol_name).sym_vaddr

\* The load segments whose virtual-address range contains v.
SegmentsContaining(v) ==
    {i \in 1..Len(call.file.phdrs) :
        LET ph == call.file.phdrs[i]
        IN  ph.p_type = PT_LOAD /\ ph.p_vaddr <= v /\ v < ph.p_vaddr + ph.p_filesz}

\* Claim C30: when the resolver finds the symbol at virtual address v, it
\* returns p_offset + (v - p_vaddr) of a load segment whose virtual-address
\* range contains v; when the image has no program headers or no load
\* segment's range contains v, the resolution fails, that is, returns 0.
C30_OffsetFromLoadSegment ==
    ResolverFound
    => LET v == FoundVaddr IN
       IF SegmentsContaining(v) = {}
       THEN call.ret = 0
       ELSE \E i \in SegmentsContaining(v) :
                call.ret = call.file.phdrs[i].p_offset + (v - call.file.phdrs[i].p_vaddr)

\* ---- C31 ----
\* The call of the resolver has returned.
ResolverReturned ==
    /\ call.fn = "resolve_symbol_offset"
    /\ call.returned

\* The resolver gets as far as the scan of the sections.
HeadersUsable(file) ==
    /\ file.ehdr_read /\ file.magic /\ file.class64 /\ file.shdrs_read
    /\ file.e_shstrndx < Len(file.shdrs)
    /\ file.shdrs[file.e_shstrndx + 1].read

\* The sections (counted from 0) whose entries the scan looks at: symbol
\* tables and dynamic symbol tables that can be read and whose string table
\* exists and can be read.
ScannedSections(file) ==
    {i \in 0..(Len(file.shdrs) - 1) :
        LET sh == file.shdrs[i + 1]
        IN  /\ sh.sh_type \in {SHT_SYMTAB, SHT_DYNSYM}
            /\ sh.sh_link < Len(file.shdrs)
            /\ file.shdrs[sh.sh_link + 1].read
            /\ sh.read}

\* The string table of scanned section i.
StrtabOf(file, i) == file.shdrs[file.shdrs[i + 1].sh_link + 1].bytes

\* Every string table of a scanned section ends with a NUL.
StringsTerminated(file) ==
    \A i \in ScannedSections(file) :
        LET t == StrtabOf(file, i) IN t # <<>> /\ t[Len(t)] = "NUL"

\* The string that starts at offset off of a string table that ends with NUL.
NameAt(strtab, off) ==
    LET end == CHOOSE e \in off..(Len(strtab) - 1) :
                   /\ strtab[e + 1] = "NUL"
                   /\ \A m \in off..(e - 1) : strtab[m + 1] # "NUL"
    IN  SubSeq(strtab, off + 1, end)

\* The entries <<section, index>> (counted from 0) named symbol_name.
EntriesNamed(file, symbol_name) ==
    {e \in UNION {{<<i, j>> : j \in 0..(Len(file.shdrs[i + 1].syms) - 1)} :
                      i \in ScannedSections(file)} :
        LET sym == file.shdrs[e[1] + 1].syms[e[2] + 1]
        IN  /\ sym.st_name < Len(StrtabOf(file, e[1]))
            /\ NameAt(StrtabOf(file, e[1]), sym.st_name) = symbol_name}

\* Entry a comes before entry b in the order of the scan, or is b.
ScanOrder(a, b) == a[1] < b[1] \/ (a[1] = b[1] /\ a[2] <= b[2])

\* Claim C31: the result of the resolver is that of the first entry named as
\* the requested symbol, in section-header order and in table order (the file
\* offset of its address, 0 if its address is 0); no entry after it is read;
\* with no such entry the result is 0.
C31_FirstMatchDecides ==
    (ResolverReturned /\ HeadersUsable(call.file) /\ StringsTerminated(call.file))
    => LET named == EntriesNamed(call.file, call.symbol_name)
       IN  IF named = {} THEN call.ret = 0
           ELSE LET first == CHOOSE e \in named : \A o \in named : ScanOrder(e, o)
                    value == call.file.shdrs[first[1] + 1].syms[first[2] + 1].st_value
                IN  /\ call.ret = IF value = 0 THEN 0
                                  ELSE vaddr_to_file_offset(call.file, value)
                    /\ \A a \in call.reads :
                           a.buf = "symtab" => ScanOrder(<<a.sec, a.index>>, first)

\* The symbol is in an entry after another name, the same table has it again,
\* and so has a later section: the result is that of the first of them.
C31_Witness ==
    /\ ResolverReturned /\ HeadersUsable(call.file) /\ StringsTerminated(call.file)
    /\ {<<2, 1>>, <<2, 2>>, <<3, 0>>} \subseteq EntriesNamed(call.file, call.symbol_name)
    /\ call.file.shdrs[4].syms[1].st_value = 1
    /\ call.ret = 4

\* ---- C32 ----
\* The call of the resolver is over: it returned or a read of it faulted.
ResolverOver ==
    /\ call.fn = "resolve_symbol_offset"
    /\ call.returned \/ call.aborted

\* The symbol sections (counted from 0) that the scan has to pass over: the
\* link is no section index, or the string table or the symbol table cannot
\* be read in full.
SkippedSections(file) ==
    {i \in 0..(Len(file.shdrs) - 1) :
        /\ file.shdrs[i + 1].sh_type \in {SHT_SYMTAB, SHT_DYNSYM}
        /\ i \notin ScannedSections(file)}

\* An image without usable headers is answered with 0 and without a fault.
C32_BadHeaders ==
    (ResolverOver /\ ~HeadersUsable(call.file))
    => /\ call.returned
       /\ call.ret = 0
       /\ \A a \in call.reads : a.buf = "shdrs" /\ a.index = call.file.e_shstrndx

\* The scan goes on after a section it passes over: a symbol in a section
\* after it is resolved (in these files every symbol has a file offset).
C32_SkipsAndContinues ==
    (/\ ResolverOver /\ HeadersUsable(call.file) /\ StringsTerminated(call.file)
     /\ call.file.phdrs = LayoutPhdrs
     /\ \E i \in SkippedSections(call.file) :
            \E e \in EntriesNamed(call.file, call.symbol_name) : e[1] > i)
    => call.returned /\ call.ret # 0

\* Claim C32: the resolver returns 0 (NotFound) and does not abort for an
\* image without the ELF magic, not of 64-bit class, with a short read of
\* the ELF header, the section header table or the section-header string
\* table, or with a section-header string index outside the table; a symbol
\* section whose string-table link is out of range or whose tables cannot be
\* read in full is passed over and the scan goes on with the next section.
C32_NotFoundNotAbort == C32_BadHeaders /\ C32_SkipsAndContinues

\* Section 2 could not be read and section 3 gave the symbol.
C32_Witness ==
    /\ ResolverOver /\ HeadersUsable(call.file) /\ StringsTerminated(call.file)
    /\ Len(call.file.shdrs) = 4
    /\ ~call.file.shdrs[3].read
    /\ SkippedSections(call.file) = {2}
    /\ EntriesNamed(call.file, call.symbol_name) = {<<3, 0>>}
    /\ call.ret = 3

\* ---- C33 ----
\* Claim C33: for every file content the resolver reads inside the buffers
\* it allocated: every section index, every symbol entry index and every byte
\* read in the comparison of a symbol's name is smaller than the size of its
\* buffer, and no read faults.
C33_ReadsInsideBuffers ==
    ResolverOver
    => /\ ~call.aborted
       /\ \A a \in call.reads : 0 <= a.index /\ a.index < a.size

\* ---------------------------------------------------------------------------
\* Spin delay (speed_bump_delay.c)
\* ---------------------------------------------------------------------------

\* The delays a caller asks for.
DelayArgs == 0..SPEED_BUMP_MAX_DELAY_NS

\* What ktime_get_ns returns when the call begins: small values and values
\* just below the wrap of the 64-bit counter.
ClockStarts == {0, 3, U64_MAX - 1, U64_MAX}

\* A faulty variant of the elapsed time: the clock itself is taken for it.
elapsed_since_NoStart(now, start_ns) == now

\* elapsed_ns = ktime_get_ns() - start_ns, in unsigned 64-bit arithmetic.
elapsed_since(now, start_ns) == U64(now - start_ns)

\* A faulty variant of the loop test: the spin ends when the module is disabled.
spin_continues_WhileEnabled(elapsed_ns, delay_ns) ==
    elapsed_ns < delay_ns /\ speed_bump_enabled # 0

\* The loop test of the spin: it reads elapsed_ns and delay_ns only.
spin_continues(elapsed_ns, delay_ns) == elapsed_ns < delay_ns

\* The handler, which has read enabled as 1, is about to call
\* speed_bump_spin_delay_ns.  clock is what ktime_get_ns returns now; early
\* and late count how far the clock has advanced since the call began, before
\* and after start_ns was read.
InitDelay ==
    /\ ModuleState(1)
    /\ \E delay_ns \in DelayArgs, clock \in ClockStarts :
           call = [fn |-> "speed_bump_spin_delay_ns", delay_ns |-> delay_ns,
                   pc |-> "entry", start_ns |-> 0, elapsed_ns |-> 0,
                   clock |-> clock, early |-> 0, late |-> 0,
                   clock_read |-> FALSE, relaxed |-> FALSE]

DelayFrame ==
    UNCHANGED <<speed_bump_targets, speed_bump_target_count, speed_bump_enabled,
                speed_bump_default_delay, speed_bump_total_hits,
                speed_bump_total_delay, percpu, speed_bump_mutex, ctl, exitctx,
                uprobes, i_count, handlers, ntrig, spun>>

InSpinDelay(pc) == call.fn = "speed_bump_spin_delay_ns" /\ call.pc = pc

\* if (delay_ns == 0) return;
spin_delay_entry ==
    /\ InSpinDelay("entry")
    /\ call' = [call EXCEPT !.pc = IF call.delay_ns = 0 THEN "returned" ELSE "start"]
    /\ DelayFrame

\* start_ns = ktime_get_ns();
spin_delay_start ==
    /\ InSpinDelay("start")
    /\ call' = [call EXCEPT !.pc = "relax", !.start_ns = call.clock, !.clock_read = TRUE]
    /\ DelayFrame

\* cpu_relax();
spin_delay_relax ==
    /\ InSpinDelay("relax")
    /\ call' = [call EXCEPT !.pc = "read", !.relaxed = TRUE]
    /\ DelayFrame

\* elapsed_ns = ktime_get_ns() - start_ns;
spin_delay_read ==
    /\ InSpinDelay("read")
    /\ call' = [call EXCEPT !.pc = "test",
                            !.elapsed_ns = elapsed_since(call.clock, call.start_ns)]
    /\ DelayFrame

\* while (elapsed_ns < delay_ns);
spin_delay_test ==
    /\ InSpinDelay("test")
    /\ call' = [call EXCEPT !.pc = IF spin_continues(call.elapsed_ns, call.delay_ns)
                                   THEN "relax"
                                   ELSE "returned"]
    /\ DelayFrame

\* The monotonic clock advances by one or two while the call is under way.
clock_tick ==
    /\ call.fn = "speed_bump_spin_delay_ns"
    /\ call.pc # "returned"
    /\ \E d \in 1..2 :
           IF call.pc \in {"entry", "start"}
           THEN /\ call.early + d <= EarlyTicks
                /\ call' = [call EXCEPT !.clock = U64(call.clock + d),
                                        !.early = call.early + d]
           ELSE /\ call.late + d <= ClockCap
                /\ call' = [call EXCEPT !.clock = U64(call.clock + d),
                                        !.late = call.late + d]
    /\ DelayFrame

spin_delay_step ==
    \/ spin_delay_entry
    \/ spin_delay_start
    \/ spin_delay_relax
    \/ spin_delay_read
    \/ spin_delay_test

\* The spin delay, the clock, and writes to the enabled file meanwhile.
NextDelay ==
    \/ spin_delay_step
    \/ clock_tick
    \/ \E buf \in HotEnabledBufs : enabled_store(buf)

SpecDelay == InitDelay /\ [][NextDelay]_vars

\* The CPU goes on executing the function, and the clock keeps advancing.
SpecDelayFair == SpecDelay /\ WF_vars(spin_delay_step) /\ WF_vars(clock_tick)

\* ---- C34 ----
\* A call with a delay above 0 has returned only if the clock has advanced by
\* the delay at least since the call began.
C34_NotEarly ==
    (InSpinDelay("returned") /\ call.delay_ns > 0)
    => call.early + call.late >= call.delay_ns

\* A call with delay 0 returns in its first step, without a read of the
\* clock and without a cpu_relax.
C34_ZeroImmediate ==
    [][(call.fn = "speed_bump_spin_delay_ns" /\ call.delay_ns = 0 /\ spin_delay_step)
       => (call'.pc = "returned" /\ ~call'.clock_read /\ ~call'.relaxed)]_vars

\* Claim C34: speed_bump_spin_delay_ns(ns) with ns > 0 returns only once the
\* monotonic clock has advanced by ns at least since the call began, and it
\* does return if the clock keeps advancing; with ns = 0 it returns at once,
\* without reading the clock or spinning.
C34_SpinDelay ==
    /\ []C34_NotEarly
    /\ C34_ZeroImmediate
    /\ <>InSpinDelay("returned")

\* A call returned after the clock wrapped around during its spin, no
\* sooner than asked.
C34_Witness ==
    /\ InSpinDelay("returned")
    /\ call.delay_ns = SPEED_BUMP_MAX_DELAY_NS
    /\ call.start_ns = U64_MAX
    /\ call.elapsed_ns = call.delay_ns
    /\ call.clock < call.start_ns

\* ---- C35 ----
\* The spin delay is under way: start_ns is read and the loop has not ended.
Spinning == call.fn = "speed_bump_spin_delay_ns" /\ call.pc \in {"relax", "read", "test"}

\* A write of 0 to enabled during the spin changes nothing of the spin.
C35_DisableLeavesSpin ==
    [][(Spinning /\ speed_bump_enabled # 0 /\ speed_bump_enabled' = 0) => call' = call]_vars

\* Each pass of the loop goes on or ends by the elapsed time alone, whatever
\* enabled is.
C35_LoopByTimeOnly ==
    [][(InSpinDelay("test") /\ spin_delay_step)
       => call'.pc = IF call.elapsed_ns < call.delay_ns THEN "relax" ELSE "returned"]_vars

\* A spin that has ended with enabled at 0 lasted as long as it was asked to.
C35_FullDelay ==
    (InSpinDelay("returned") /\ call.delay_ns > 0 /\ speed_bump_enabled = 0)
    => (call.elapsed_ns >= call.delay_ns /\ call.late >= call.delay_ns)

\* Claim C35: an invocation that is past the enabled test keeps spinning for
\* the full delay it started with when enabled is set to 0 meanwhile: the
\* write leaves the spin as it is, the loop goes on until the delay has
\* elapsed, and so the spin ends no sooner than without the write.
C35_DisableDoesNotShorten ==
    C35_DisableLeavesSpin /\ C35_LoopByTimeOnly /\ []C35_FullDelay

\* enabled, 1 when the call began, is 0 in the middle of the spin: the clock
\* has advanced by less than the delay and the loop is still running.
C35_Witness ==
    /\ Spinning
    /\ speed_bump_enabled = 0
    /\ call.late > 0
    /\ call.late < call.delay_ns
    /\ call.pc = "relax"

\* ---- C36 ----
\* No step of the handler takes or releases the registry lock.
C36_HandlerLeavesLock ==
    [][(Trigger \/ handlers' # handlers) => speed_bump_mutex' = speed_bump_mutex]_vars

\* Some other CPU is in the handler.
OtherInHandler(cpu) == \E c \in CPUs \ {cpu} : handlers[c].pc = "spin"

\* An invocation that is in its delay can finish: also while a control
\* operation or the module exit holds the lock, and while other CPUs are in
\* the handler.
C36_FinishesAnyway ==
    \A cpu \in CPUs : handlers[cpu].pc = "spin" => ENABLED handler_stats(cpu)

\* While the lock is held or another CPU is in the handler, a probe of a
\* registered target can fire on an idle CPU and its handler runs its checks.
C36_EntersAnyway ==
    \A cpu \in CPUs :
        (/\ speed_bump_mutex # "free" \/ OtherInHandler(cpu)
         /\ handlers[cpu].pc = "idle"
         /\ ntrig < MaxTriggers
         /\ exitctx.pc # "unloaded")
        => \A key \in uprobes :
               IsAllocated(key) => \A task \in Tasks : ENABLED handler_enter(cpu, key, task)

\* Claim C36: the handler never acquires or waits on the registry lock: its
\* steps leave the lock as it is, and an invocation can start and can run to
\* its end while a control-path operation holds the lock and while other
\* invocations are under way.
C36_HandlerNeverWaits ==
    C36_HandlerLeavesLock /\ [](C36_FinishesAnyway /\ C36_EntersAnyway)

\* A control operation holds the lock, every CPU is in the handler, and an
\* invocation has already finished.
C36_Witness ==
    /\ speed_bump_mutex = "ctl"
    /\ \A cpu \in CPUs : handlers[cpu].pc = "spin"
    /\ speed_bump_total_hits > 0

\* ---------------------------------------------------------------------------
\* The registry lock under fair scheduling
\* ---------------------------------------------------------------------------

\* Commands that run into every exit path of add, update and remove: success,
\* duplicate, capacity, target not found, remove-all.
LockLines ==
    { <<"+", "/", "a", ":", "f">>,
      <<"+", "/", "a", ":", "g">>,
      <<"+", "/", "b", ":", "f">>,
      <<"=", "/", "a", ":", "f", " ", "2">>,
      <<"-", "/", "a", ":", "f">>,
      <<"-", "*">> }

\* The control path under these commands, the list file, and probes that
\* fire in one task on the first CPU.
NextLock ==
    \/ Control(LockLines, {<<"1">>})
    \/ sysfs_show("targets_list")
    \/ \E key \in uprobes : handler_enter(1, key, 2)
    \/ handler_stats(1)

SpecLock == Init /\ [][NextLock]_vars

\* A thread that has begun an operation goes on executing it, the mutex is
\* handed to a thread that keeps waiting for it, and a handler that has
\* begun its delay ends it.
SpecLockFair ==
    /\ SpecLock
    /\ WF_vars(\E alloc_ok \in BOOLEAN, reg_err \in RegisterErrs :
                   add_target_locked(alloc_ok, reg_err))
    /\ WF_vars(update_target_locked)
    /\ WF_vars(remove_target_finish)
    /\ SF_vars(speed_bump_exit_lock)
    /\ WF_vars(speed_bump_exit_free)
    /\ WF_vars(handler_stats(1))

\* ---- C37 ----
\* The lock is held only inside an operation: by the control path while a
\* remove or remove-all is under way, by the exit while it frees the targets.
C37_HeldOnlyInside ==
    /\ speed_bump_mutex = "ctl" => ctl.pc = "sync"
    /\ speed_bump_mutex = "exit" => exitctx.pc = "freeing"

\* Claim C37: every control-path operation that takes the registry lock
\* releases it on every exit path, so, handlers terminating, every add,
\* remove, update and remove-all that has begun completes, the lock is free
\* again after it was taken (for the list, which takes it when it is free, and
\* for every waiting operation), and no lock is held after a return.
C37_LockAlwaysReleased ==
    /\ []C37_HeldOnlyInside
    /\ (ctl.pc # "idle") ~> (ctl.pc = "idle")
    /\ (speed_bump_mutex # "free") ~> (speed_bump_mutex = "free")

\* A remove-all that waited for a handler has returned, the lock is free, and
\* writes to the targets file have returned every error of the locked paths
\* before.
C37_Witness ==
    /\ ctl.pc = "idle"
    /\ ctl.ret = "ENOSPC"
    /\ speed_bump_mutex = "free"
    /\ speed_bump_target_count = SPEED_BUMP_MAX_TARGETS
    /\ speed_bump_total_hits > 0

\* ---- C38 ----
\* No write to the targets file is inside an operation and the exit is not
\* inside its free loop.
C38_Quiescent ==
    /\ ctl.pc = "idle"
    /\ exitctx.pc # "freeing"

\* The inode references held on a path: one for every listed target of it.
C38_RefsOf(path) ==
    Cardinality({i \in 1..Len(speed_bump_targets) : speed_bump_targets[i].path = path})

\* Between operations the attached probes are exactly the listed targets and
\* the inode references are exactly theirs.
C38_ProbesAreTargets ==
    C38_Quiescent =>
        /\ uprobes = Keys
        /\ \A path \in Paths : i_count[path] = C38_RefsOf(path)

\* An add that fails leaves no probe, no inode reference and no target.
C38_FailedAttach ==
    [][(ctl.pc = "parsed" /\ ctl.kind = "add" /\ ctl'.pc = "idle" /\ ctl'.ret # "OK")
           => UNCHANGED <<uprobes, i_count, speed_bump_targets>>]_vars

UpdateLines ==
    { <<"+", "/", "a", ":", "f", " ", "2", " ", "p", "i", "d", "=", "2">>,
      <<"+", "/", "a", ":", "g">>,
      <<"=", "/", "a", ":", "f">>,
      <<"=", "/", "a", ":", "f", "\n">>,
      <<"=", "/", "a", ":", "f", " ", "p", "i", "d", "=", "4">>,
      <<"=", "/", "a", ":", "f", " ", "p", "i", "d", "=", "0">>,
      <<"=", "/", "a", ":", "f", " ", "3">>,
      <<"=", "/", "a", ":", "f", " ", "3", " ", "p", "i", "d", "=", "0">>,
      <<"=", "/", "a", ":", "g", " ", "p", "i", "d", "=", "2">>,
      <<"=", "/", "b", ":", "f">>,
      <<"-", "/", "a", ":", "f">> }

UpdateDefaultBufs == { <<"1">>, <<"4">> }

\* The control path under these commands and writes to default_delay_ns.
NextUpdate ==
    \/ Control(UpdateLines, {<<"1">>})
    \/ \E buf \in UpdateDefaultBufs : default_delay_ns_store(buf)

SpecUpdate == Init /\ [][NextUpdate]_vars

\* The step in which the write of line to the targets file is parsed.
UpdateWrite(line) ==
    /\ ctl.pc = "idle"
    /\ ctl' # ctl
    /\ targets_store(line)

\* The listed target with this key, before and after a step.
TargetOf(key) == speed_bump_targets[find_target(key[1], key[2])]

TargetOfNext(key) ==
    LET i == CHOOSE j \in 1..Len(speed_bump_targets') :
                 KeyOf(speed_bump_targets'[j]) = key
    IN  speed_bump_targets'[i]

\* ---- C39 ----
\* The update commands without a delay field, with the key they name.
C39_NoDelayUpdates ==
    { [line |-> <<"=", "/", "a", ":", "f">>, key |-> <<P_a, S_f>>],
      [line |-> <<"=", "/", "a", ":", "f", "\n">>, key |-> <<P_a, S_f>>],
      [line |-> <<"=", "/", "a", ":", "f", " ", "p", "i", "d", "=", "4">>, key |-> <<P_a, S_f>>],
      [line |-> <<"=", "/", "a", ":", "f", " ", "p", "i", "d", "=", "0">>, key |-> <<P_a, S_f>>],
      [line |-> <<"=", "/", "a", ":", "g", " ", "p", "i", "d", "=", "2">>, key |-> <<P_a, S_g>>],
      [line |-> <<"=", "/", "b", ":", "f">>, key |-> <<P_b, S_f>>] }

\* Such a command is not rejected by the parser and asks for the default
\* delay as it is when the command is read.
C39_Parsed ==
    [][\A u \in C39_NoDelayUpdates :
           UpdateWrite(u.line)
           => /\ ctl'.pc = "parsed"
              /\ ctl'.kind = "update"
              /\ KeyOf(ctl'.req) = u.key
              /\ ctl'.req.delay_ns = speed_bump_default_delay]_vars

\* The update of a registered target returns OK and stores the delay asked for.
C39_Stored ==
    [][(UpdateReturns /\ KeyOf(ctl.req) \in Keys)
       => /\ ctl'.ret = "OK"
          /\ TargetOfNext(KeyOf(ctl.req)).delay_ns = ctl.req.delay_ns]_vars

\* Claim C39: an update command without a delay field ('=PATH:SYMBOL' or
\* '=PATH:SYMBOL pid=P') on a registered target succeeds and sets the
\* target's delay_ns to the default delay the command read, whatever delay
\* the target had.
C39_UpdateWithoutDelay == C39_Parsed /\ C39_Stored

\* /a:f, added with delay 2, now has the default delay 4, which no command
\* names, and has kept its pid filter.
C39_Witness ==
    /\ ctl.pc = "idle"
    /\ ctl.ret = "OK"
    /\ speed_bump_default_delay = 4
    /\ <<P_a, S_f>> \in Keys
    /\ TargetOf(<<P_a, S_f>>).delay_ns = 4
    /\ TargetOf(<<P_a, S_f>>).pid_filter = 2

\* ---- C40 ----
\* The update commands with the pid filter they carry: 0 without a pid= token
\* and for pid=0.
C40_Updates ==
    { [line |-> <<"=", "/", "a", ":", "f">>, pid |-> 0],
      [line |-> <<"=", "/", "a", ":", "f", "\n">>, pid |-> 0],
      [line |-> <<"=", "/", "a", ":", "f", " ", "3">>, pid |-> 0],
      [line |-> <<"=", "/", "a", ":", "f", " ", "p", "i", "d", "=", "0">>, pid |-> 0],
      [line |-> <<"=", "/", "a", ":", "f", " ", "3", " ", "p", "i", "d", "=", "0">>, pid |-> 0],
      [line |-> <<"=", "/", "a", ":", "f", " ", "p", "i", "d", "=", "4">>, pid |-> 4],
      [line |-> <<"=", "/", "a", ":", "g", " ", "p", "i", "d", "=", "2">>, pid |-> 2] }

C40_Parsed ==
    [][\A u \in C40_Updates :
           UpdateWrite(u.line)
           => /\ ctl'.pc = "parsed"
              /\ ctl'.kind = "update"
              /\ ctl'.req.pid_filter = u.pid]_vars

\* The update leaves the filter of its target alone when it carries none and
\* replaces it when it carries one; no update turns a filter into 0.
C40_Stored ==
    [][(UpdateReturns /\ KeyOf(ctl.req) \in Keys)
       => /\ TargetOfNext(KeyOf(ctl.req)).pid_filter =
                 IF ctl.req.pid_filter = 0
                 THEN TargetOf(KeyOf(ctl.req)).pid_filter
                 ELSE ctl.req.pid_filter
          /\ \A i \in 1..Len(speed_bump_targets) :
                 speed_bump_targets[i].pid_filter # 0
                 => speed_bump_targets'[i].pid_filter # 0]_vars

\* Claim C40: an update never clears a pid filter: a command without a pid=
\* token or with pid=0 leaves the target's pid_filter as it was, and only a
\* non-zero pid replaces it.
C40_UpdateKeepsPidFilter == C40_Parsed /\ C40_Stored

\* /a:f, added with delay 2 and pid filter 2, has been given delay 3 by an
\* update without a pid or with pid=0 and still has its filter, and /a:g,
\* added without a filter, has been given one.
C40_Witness ==
    /\ ctl.pc = "idle"
    /\ ctl.ret = "OK"
    /\ <<P_a, S_f>> \in Keys
    /\ TargetOf(<<P_a, S_f>>).delay_ns = 3
    /\ TargetOf(<<P_a, S_f>>).pid_filter = 2
    /\ <<P_a, S_g>> \in Keys
    /\ TargetOf(<<P_a, S_g>>).pid_filter = 2


====
